---- MODULE Spec2Model ----
(***************************************************************************)
(* A model of the Amstrad CPC tools of TheAbbeyOfCrime: the pixel codec    *)
(* and the palette conversions (cpcimage.py), the disk image handler       *)
(* (cpcdiskimage.py) and the snapshot handler (cpcsnapshot.py).            *)
(*                                                                         *)
(* Python values are modelled as follows.                                  *)
(*  - An int is an Int.  A list or tuple of ints is a sequence (1-based    *)
(*    here, 0-based in the source: element i of the source is s[i+1]).     *)
(*  - A bytearray is a record [len, nz]: len is its length and nz maps     *)
(*    every index (0-based) that holds a non-zero byte to that byte.  The  *)
(*    representation is canonical, so equality of records is equality of   *)
(*    byte strings, and a 64 KiB memory costs no more than the bytes       *)
(*    written to it.                                                       *)
(*  - A call returns a record [raised, ret] (a function) or                *)
(*    [self, raised, ret] (a method): raised is "" or the name of the      *)
(*    exception that left the call, self the object after the call, with   *)
(*    whatever the call had changed before it raised.                      *)
(***************************************************************************)
EXTENDS Integers, Sequences, FiniteSets, TLC

VARIABLES
    pixels,     \* pixel codec: the list handed to encode_pixels
    encoded,    \* pixel codec: the result of encode_pixels(pixels), or NotCalled
    decoded,    \* pixel codec: the call of decode_pixels and its result, or NotCalled
    palette,    \* palette: the list handed to a palette conversion
    converted,  \* palette: the conversion called and its result, or NoCall
    dsk_file,   \* disk image: the content of the file handed to DiskImage()
    dsk,        \* disk image: the DiskImage object, or NoDisk
    dsk_pre,    \* disk image: the object as it was before the last call
    dsk_call,   \* disk image: the last call, its arguments and its result
    dsk_n,      \* disk image: the number of method calls made
    dsk_writes, \* disk image: the number of write_sector calls that succeeded
    sna,        \* snapshot: the Snapshot object, or NoSnapshot
    sna_pre,    \* snapshot: the object as it was before the last call
    sna_call,   \* snapshot: the last call, its arguments and its result
    sna_n       \* snapshot: the number of method calls made

PixelVars == <<pixels, encoded, decoded>>

PaletteVars == <<palette, converted>>

DiskVars == <<dsk_file, dsk, dsk_pre, dsk_call, dsk_n, dsk_writes>>

SnapshotVars == <<sna, sna_pre, sna_call, sna_n>>

vars == <<PixelVars, PaletteVars, DiskVars, SnapshotVars>>

NotCalled == [raised |-> "not called", ret |-> 0]

Return(v) == [raised |-> "", ret |-> v]

Raise(e) == [raised |-> e, ret |-> 0]

(***************************************************************************)
(* Python's integer operators on non-negative ints.                        *)
(***************************************************************************)
RECURSIVE BitAnd(_, _)
BitAnd(a, b) ==
    IF a = 0 \/ b = 0 THEN 0
    ELSE (a % 2) * (b % 2) + 2 * BitAnd(a \div 2, b \div 2)

RECURSIVE BitOr(_, _)
BitOr(a, b) ==
    IF a = 0 THEN b
    ELSE IF b = 0 THEN a
    ELSE (IF a % 2 = 1 \/ b % 2 = 1 THEN 1 ELSE 0) + 2 * BitOr(a \div 2, b \div 2)

Shl(a, n) == a * (2 ^ n)

Shr(a, n) == a \div (2 ^ n)

(***************************************************************************)
(* Python's bytearray.  Indices and slice bounds are those of Python: a    *)
(* slice bound is clamped to the array, a negative one counts from the end,*)
(* and assigning to a slice replaces it by the data, whatever its length.  *)
(***************************************************************************)
bytearray(n) == [len |-> n, nz |-> [k \in {} |-> 0]]

\* bytearray(list)
FromList(list) ==
    [len |-> Len(list),
     nz |-> [k \in {i - 1 : i \in {j \in 1..Len(list) : list[j] # 0}} |-> list[k + 1]]]

\* a[i], for i in range
GetItem(a, i) == IF i \in DOMAIN a.nz THEN a.nz[i] ELSE 0

\* the index a[i] stands for
Index(a, i) == IF i < 0 THEN i + a.len ELSE i

\* whether a[i] raises no IndexError
InRange(a, i) == Index(a, i) >= 0 /\ Index(a, i) < a.len

\* a[i] = v, for i in range and v a byte
SetItem(a, i, v) ==
    [len |-> a.len,
     nz |-> [k \in (DOMAIN a.nz \ {i}) \cup (IF v # 0 THEN {i} ELSE {}) |->
                IF k = i THEN v ELSE a.nz[k]]]

\* a slice bound, as PySlice_AdjustIndices adjusts it to an array of n items
Clamp(n, i) ==
    IF i < 0 THEN (IF i + n < 0 THEN 0 ELSE i + n)
    ELSE IF i > n THEN n ELSE i

\* a[lo:hi]
GetSlice(a, lo, hi) ==
    LET s == Clamp(a.len, lo)
        e == Clamp(a.len, hi)
    IN  [len |-> IF e > s THEN e - s ELSE 0,
         nz |-> [k \in {j - s : j \in {x \in DOMAIN a.nz : x >= s /\ x < e}} |->
                    a.nz[k + s]]]

\* a + b
Concat(a, b) ==
    [len |-> a.len + b.len,
     nz |-> [k \in DOMAIN a.nz \cup {j + a.len : j \in DOMAIN b.nz} |->
                IF k < a.len THEN a.nz[k] ELSE b.nz[k - a.len]]]

\* a[lo:hi] = data
SetSlice(a, lo, hi, data) ==
    LET s == Clamp(a.len, lo)
        e == IF Clamp(a.len, hi) < s THEN s ELSE Clamp(a.len, hi)
    IN  Concat(Concat(GetSlice(a, 0, s), data), GetSlice(a, e, a.len))

\* file.read(n) of a file whose content is f, from position pos: n bytes, or
\* all that is left when fewer are left or n is -1.  read raises ValueError
\* for n below -1 (ReadRaises).
FileRead(f, pos, n) ==
    IF n < 0 THEN GetSlice(f, pos, f.len) ELSE GetSlice(f, pos, pos + n)

ReadRaises(n) == n < -1

(***************************************************************************)
(* cpcimage.py: encode_pixels and decode_pixels.                           *)
(***************************************************************************)
max_pixel_value(p) == IF Len(p) = 2 THEN 15 ELSE 3

\* The bits of a Mode 0 byte (2 pixels).
EncodeMode0(p) ==
    BitOr(BitOr(BitOr(BitOr(Shr(BitAnd(p[1], 8), 2), Shl(BitAnd(p[1], 4), 3)),
                      Shl(BitAnd(p[1], 2), 2)),
                Shl(BitAnd(p[1], 1), 7)),
          BitOr(BitOr(BitOr(Shr(BitAnd(p[2], 8), 3), Shl(BitAnd(p[2], 4), 2)),
                      Shl(BitAnd(p[2], 2), 1)),
                Shl(BitAnd(p[2], 1), 6)))

\* EncodeMode1 with bit 1 of the pixels placed from the right instead of from
\* the left (P3,1 P2,1 P1,1 P0,1 in the low nibble).
EncodeMode1_Bit1Reversed(p) ==
    BitOr(BitOr(BitOr(BitOr(Shr(BitAnd(p[1], 2), 1), Shl(BitAnd(p[1], 1), 7)),
                      BitOr(BitAnd(p[2], 2), Shl(BitAnd(p[2], 1), 6))),
                BitOr(Shl(BitAnd(p[3], 2), 1), Shl(BitAnd(p[3], 1), 5))),
          BitOr(Shl(BitAnd(p[4], 2), 2), Shl(BitAnd(p[4], 1), 4)))

\* The bits of a Mode 1 byte (4 pixels).
EncodeMode1(p) ==
    BitOr(BitOr(BitOr(BitOr(Shl(BitAnd(p[1], 2), 2), Shl(BitAnd(p[1], 1), 7)),
                      BitOr(Shl(BitAnd(p[2], 2), 1), Shl(BitAnd(p[2], 1), 6))),
                BitOr(BitAnd(p[3], 2), Shl(BitAnd(p[3], 1), 5))),
          BitOr(Shr(BitAnd(p[4], 2), 1), Shl(BitAnd(p[4], 1), 4)))

encode_pixels(p) ==
    IF Len(p) \notin {2, 4} THEN Raise("ListSizeError")
    ELSE IF \E i \in 1..Len(p) : p[i] \notin 0..max_pixel_value(p)
         THEN Raise("ValueError")
    ELSE IF Len(p) = 2 THEN Return(EncodeMode0(p))
    ELSE Return(EncodeMode1(p))

\* DecodeMode0 reading bits 1 and 2 of each pixel from each other's place.
DecodeMode0_Bits12Swapped(byte) ==
    << BitOr(BitOr(BitOr(Shl(BitAnd(byte, 2), 2), Shr(BitAnd(byte, 32), 4)),
                   Shr(BitAnd(byte, 8), 1)),
             Shr(BitAnd(byte, 128), 7)),
       BitOr(BitOr(BitOr(Shl(BitAnd(byte, 1), 3), Shr(BitAnd(byte, 16), 3)),
                   BitAnd(byte, 4)),
             Shr(BitAnd(byte, 64), 6)) >>

DecodeMode0(byte) ==
    << BitOr(BitOr(BitOr(Shl(BitAnd(byte, 2), 2), Shr(BitAnd(byte, 32), 3)),
                   Shr(BitAnd(byte, 8), 2)),
             Shr(BitAnd(byte, 128), 7)),
       BitOr(BitOr(BitOr(Shl(BitAnd(byte, 1), 3), Shr(BitAnd(byte, 16), 2)),
                   Shr(BitAnd(byte, 4), 1)),
             Shr(BitAnd(byte, 64), 6)) >>

DecodeMode1(byte) ==
    << BitOr(Shr(BitAnd(byte, 8), 2), Shr(BitAnd(byte, 128), 7)),
       BitOr(Shr(BitAnd(byte, 4), 1), Shr(BitAnd(byte, 64), 6)),
       BitOr(BitAnd(byte, 2), Shr(BitAnd(byte, 32), 5)),
       BitOr(Shl(BitAnd(byte, 1), 1), Shr(BitAnd(byte, 16), 4)) >>

decode_pixels(byte, screen_mode) ==
    IF byte \notin 0..255 THEN Raise("ValueError")
    ELSE IF screen_mode \notin {0, 1} THEN Raise("ValueError")
    ELSE IF screen_mode = 0 THEN Return(DecodeMode0(byte))
    ELSE Return(DecodeMode1(byte))

(***************************************************************************)
(* cpcimage.py: the palette conversions.                                   *)
(***************************************************************************)
\* The level 0, 1 or 2 of a red, green or blue value, with < for <= at the
\* first threshold.
cpc_level_Below85(rgb) == IF rgb < 85 THEN 0 ELSE IF rgb <= 170 THEN 1 ELSE 2

\* The level 0, 1 or 2 of a red, green or blue value.
cpc_level(rgb) == IF rgb <= 85 THEN 0 ELSE IF rgb <= 170 THEN 1 ELSE 2

\* The body of the loop: the firmware colour of the RGB values of entry
\* palette_index.
cpc_colour(rgb_palette, palette_index) ==
    LET cpc_red == cpc_level(rgb_palette[palette_index * 3 + 1])
        cpc_green == cpc_level(rgb_palette[palette_index * 3 + 2])
        cpc_blue == cpc_level(rgb_palette[palette_index * 3 + 3])
    IN  cpc_blue + cpc_red * 3 + cpc_green * 9

\* cpc_palette = [0] * 256, and for palette_index in range(0,
\* len(palette)//3) the loop assigns cpc_palette[palette_index]: the
\* assignment to entry 256, which the list does not hold, raises IndexError.
convert_rgb_palette_to_cpc(rgb_palette) ==
    IF Len(rgb_palette) % 3 # 0 THEN Raise("ListSizeError")
    ELSE IF Len(rgb_palette) \div 3 > 256 THEN Raise("IndexError")
    ELSE Return([i \in 1..256 |->
                    IF i <= Len(rgb_palette) \div 3
                    THEN cpc_colour(rgb_palette, i - 1) ELSE 0])

\* The red, green or blue value of a level, with 127 for level 1.
rgb_value_127(cpc) == IF cpc = 0 THEN 0 ELSE IF cpc = 1 THEN 127 ELSE 255

\* The red, green or blue value of a level.
rgb_value(cpc) == IF cpc = 0 THEN 0 ELSE IF cpc = 1 THEN 128 ELSE 255

\* The red, green and blue values of a firmware colour in 0..26.
rgb_triple(ink) ==
    LET cpc_green == ink \div 9
        cpc_red == (ink - cpc_green * 9) \div 3
        cpc_blue == ink - cpc_green * 9 - cpc_red * 3
    IN  <<rgb_value(cpc_red), rgb_value(cpc_green), rgb_value(cpc_blue)>>

convert_cpc_palette_to_rgb(cpc_palette) ==
    IF Len(cpc_palette) \notin 1..16 THEN Raise("ListSizeError")
    ELSE IF \E index \in 1..Len(cpc_palette) : cpc_palette[index] \notin 0..26
    THEN Raise("ValueError")
    ELSE Return([k \in 1..(Len(cpc_palette) * 3) |->
                    rgb_triple(cpc_palette[((k - 1) \div 3) + 1])[((k - 1) % 3) + 1]])

(***************************************************************************)
(* cpcdiskimage.py: class DiskImage.  An object is a record                *)
(* [header, track_info_block] of bytearrays.  Track numbers and sector ids *)
(* are ints, so the TypeError of _validate_track_number is never raised.   *)
(***************************************************************************)
\* 'EXTENDED CPC DSK File\r\n'
DskSignature ==
    <<69, 88, 84, 69, 78, 68, 69, 68, 32, 67, 80, 67, 32, 68, 83, 75, 32,
      70, 105, 108, 101, 13, 10>>

\* DiskImage_init reading one byte too few into track_info_block.
DiskImage_init_ShortRead(file) ==
    LET header == FileRead(file, 0, 256) IN
    IF GetSlice(header, 0, 23) # FromList(DskSignature)
    THEN [self |-> [header |-> header, track_info_block |-> bytearray(0)],
          raised |-> "FileFormatError", ret |-> 0]
    ELSE IF ReadRaises(file.len - 257)
    THEN [self |-> [header |-> header, track_info_block |-> bytearray(0)],
          raised |-> "ValueError", ret |-> 0]
    ELSE [self |-> [header |-> header,
                    track_info_block |-> FileRead(file, header.len, file.len - 257)],
          raised |-> "", ret |-> 0]

\* DiskImage(filepath), for a file whose content is the bytearray file.
DiskImage_init(file) ==
    LET header == FileRead(file, 0, 256) IN
    IF GetSlice(header, 0, 23) # FromList(DskSignature)
    THEN [self |-> [header |-> header, track_info_block |-> bytearray(0)],
          raised |-> "FileFormatError", ret |-> 0]
    ELSE IF ReadRaises(file.len - 256)
    THEN [self |-> [header |-> header, track_info_block |-> bytearray(0)],
          raised |-> "ValueError", ret |-> 0]
    ELSE [self |-> [header |-> header,
                    track_info_block |-> FileRead(file, header.len, file.len - 256)],
          raised |-> "", ret |-> 0]

number_of_tracks(self) ==
    IF InRange(self.header, 48) THEN Return(GetItem(self.header, 48))
    ELSE Raise("IndexError")

validate_track_number(self, track) ==
    LET n == number_of_tracks(self) IN
    IF n.raised # "" THEN n
    ELSE IF track \notin 0..(n.ret - 1) THEN Raise("InvalidTrackError")
    ELSE Return(0)

get_track_info_block_size(self, track) ==
    LET valid == validate_track_number(self, track) IN
    IF valid.raised # "" THEN valid
    ELSE IF ~InRange(self.header, 52 + track) THEN Raise("IndexError")
    ELSE Return(GetItem(self.header, 52 + track) * 256)

RECURSIVE track_info_block_offset_loop(_, _, _, _)
track_info_block_offset_loop(self, i, track, track_info_block_offset) ==
    IF i >= track THEN Return(track_info_block_offset)
    ELSE LET size == get_track_info_block_size(self, i) IN
         IF size.raised # "" THEN size
         ELSE track_info_block_offset_loop(self, i + 1, track,
                                           track_info_block_offset + size.ret)

get_track_info_block_offset(self, track) ==
    LET valid == validate_track_number(self, track)
        size == get_track_info_block_size(self, track)
    IN  IF valid.raised # "" THEN valid
        ELSE IF size.raised # "" THEN size
        ELSE IF size.ret = 0 THEN Raise("TrackDataError")
        ELSE track_info_block_offset_loop(self, 0, track, 0)

\* sector_tuple without the high byte of the actual size.
sector_tuple_SizeLowByteOnly(tib, ptr) ==
    << GetItem(tib, ptr), GetItem(tib, ptr + 1), GetItem(tib, ptr + 2),
       GetItem(tib, ptr + 3), GetItem(tib, ptr + 4), GetItem(tib, ptr + 5),
       GetItem(tib, ptr + 6) >>

\* The tuple of the 8-byte descriptor at track_info_block_ptr.
sector_tuple(tib, ptr) ==
    << GetItem(tib, ptr), GetItem(tib, ptr + 1), GetItem(tib, ptr + 2),
       GetItem(tib, ptr + 3), GetItem(tib, ptr + 4), GetItem(tib, ptr + 5),
       GetItem(tib, ptr + 6) + GetItem(tib, ptr + 7) * 256 >>

RECURSIVE sector_info_loop(_, _, _, _, _)
sector_info_loop(self, sector, number_of_sectors, track_info_block_ptr, sector_info) ==
    IF sector >= number_of_sectors THEN Return(sector_info)
    ELSE IF ~InRange(self.track_info_block, track_info_block_ptr + 7)
         THEN Raise("IndexError")
    ELSE sector_info_loop(self, sector + 1, number_of_sectors,
             track_info_block_ptr + 8,
             Append(sector_info,
                    sector_tuple(self.track_info_block, track_info_block_ptr)))

get_sector_info(self, track) ==
    LET valid == validate_track_number(self, track)
        size == get_track_info_block_size(self, track)
        offset == get_track_info_block_offset(self, track)
    IN  IF valid.raised # "" THEN valid
        ELSE IF size.raised # "" THEN size
        ELSE IF size.ret = 0 THEN Return(<<>>)
        ELSE IF offset.raised # "" THEN offset
        ELSE IF ~InRange(self.track_info_block, offset.ret + 21)
             THEN Raise("IndexError")
        ELSE sector_info_loop(self, 0,
                 GetItem(self.track_info_block, offset.ret + 21),
                 offset.ret + 24, <<>>)

\* read_sector_loop moving the pointer by the size the size code N stands
\* for instead of the actual size of the sector data.
RECURSIVE read_sector_loop_StepBySizeCode(_, _, _, _, _)
read_sector_loop_StepBySizeCode(self, sector_info, i, sector, sector_block_ptr) ==
    IF i >= Len(sector_info) THEN Raise("InvalidSectorError")
    ELSE IF sector_info[i + 1][3] = sector
         THEN Return(GetSlice(self.track_info_block, sector_block_ptr,
                              sector_block_ptr + 128 * (2 ^ sector_info[i + 1][4])))
    ELSE read_sector_loop_StepBySizeCode(self, sector_info, i + 1, sector,
             sector_block_ptr + 128 * (2 ^ sector_info[i + 1][4]))

RECURSIVE read_sector_loop(_, _, _, _, _)
read_sector_loop(self, sector_info, i, sector, sector_block_ptr) ==
    IF i >= Len(sector_info) THEN Raise("InvalidSectorError")
    ELSE IF sector_info[i + 1][3] = sector
         THEN Return(GetSlice(self.track_info_block, sector_block_ptr,
                              sector_block_ptr + 128 * (2 ^ sector_info[i + 1][4])))
    ELSE read_sector_loop(self, sector_info, i + 1, sector,
                          sector_block_ptr + sector_info[i + 1][7])

\* read_sector without its test for a track that has no data.
read_sector_NoSizeTest(self, track, sector) ==
    LET valid == validate_track_number(self, track)
        sector_info == get_sector_info(self, track)
    IN  IF valid.raised # "" THEN valid
        ELSE IF sector_info.raised # "" THEN sector_info
        ELSE read_sector_loop(self, sector_info.ret, 0, sector, 256)

read_sector(self, track, sector) ==
    LET valid == validate_track_number(self, track)
        size == get_track_info_block_size(self, track)
        sector_info == get_sector_info(self, track)
        offset == get_track_info_block_offset(self, track)
    IN  IF valid.raised # "" THEN valid
        ELSE IF size.raised # "" THEN size
        ELSE IF size.ret = 0 THEN Raise("TrackDataError")
        ELSE IF sector_info.raised # "" THEN sector_info
        ELSE IF offset.raised # "" THEN offset
        ELSE read_sector_loop(self, sector_info.ret, 0, sector, offset.ret + 256)

\* A method's record: the object after the call and what the call raised.
Raised(self, e) == [self |-> self, raised |-> e, ret |-> 0]

Done(self) == [self |-> self, raised |-> "", ret |-> 0]

\* write_sector_loop storing the data before it compares the lengths.
RECURSIVE write_sector_loop_StoreFirst(_, _, _, _, _, _)
write_sector_loop_StoreFirst(self, sector_info, i, sector, data, sector_block_ptr) ==
    IF i >= Len(sector_info) THEN Raised(self, "InvalidSectorError")
    ELSE IF sector_info[i + 1][3] = sector
         THEN LET stored == [self EXCEPT !.track_info_block =
                                SetSlice(self.track_info_block, sector_block_ptr,
                                         sector_block_ptr + data.len, data)]
              IN  IF data.len # sector_info[i + 1][7]
                  THEN Raised(stored, "SectorWriteError")
                  ELSE Done(stored)
    ELSE write_sector_loop_StoreFirst(self, sector_info, i + 1, sector, data,
                                      sector_block_ptr + sector_info[i + 1][7])

RECURSIVE write_sector_loop(_, _, _, _, _, _)
write_sector_loop(self, sector_info, i, sector, data, sector_block_ptr) ==
    IF i >= Len(sector_info) THEN Raised(self, "InvalidSectorError")
    ELSE IF sector_info[i + 1][3] = sector
         THEN IF data.len # sector_info[i + 1][7]
              THEN Raised(self, "SectorWriteError")
              ELSE Done([self EXCEPT !.track_info_block =
                            SetSlice(self.track_info_block, sector_block_ptr,
                                     sector_block_ptr + data.len, data)])
    ELSE write_sector_loop(self, sector_info, i + 1, sector, data,
                           sector_block_ptr + sector_info[i + 1][7])

write_sector(self, track, sector, data) ==
    LET valid == validate_track_number(self, track)
        size == get_track_info_block_size(self, track)
        sector_info == get_sector_info(self, track)
        offset == get_track_info_block_offset(self, track)
    IN  IF valid.raised # "" THEN Raised(self, valid.raised)
        ELSE IF size.raised # "" THEN Raised(self, size.raised)
        ELSE IF size.ret = 0 THEN Raised(self, "TrackDataError")
        ELSE IF sector_info.raised # "" THEN Raised(self, sector_info.raised)
        ELSE IF offset.raised # "" THEN Raised(self, offset.raised)
        ELSE write_sector_loop(self, sector_info.ret, 0, sector, data,
                               offset.ret + 256)

\* patch.py: file.write(abadia_dsk.header); file.write(abadia_dsk.track_info_block)
write_disk_image(self) == Concat(self.header, self.track_info_block)

(***************************************************************************)
(* cpcsnapshot.py: class Snapshot.  An object is a record [header, memory] *)
(* of bytearrays.  Offsets in the header are written in decimal: 0x10 = 16,*)
(* 0x1b = 27, 0x2f = 47, 0x3f = 63, 0x40 = 64, 0x43 = 67, 0x55 = 85,       *)
(* 0x59 = 89, 0x6b = 107, 0x6d = 109, and 0x10000 = 65536.                 *)
(***************************************************************************)
z80_registers_8bit ==
    <<"F", "A", "C", "B", "E", "D", "L", "H", "R", "I",
      "F'", "A'", "C'", "B'", "E'", "D'", "L'", "H'">>

z80_registers_16bit ==
    <<"AF", "BC", "DE", "HL", "IX", "IY", "SP", "PC", "AF'", "BC'", "DE'", "HL'">>

firmware_inks ==
    <<13, 27, 19, 25, 1, 7, 10, 16, 28, 29, 24, 26, 6, 8, 15, 17,
      30, 31, 18, 20, 0, 2, 9, 11, 4, 22, 21, 23, 3, 5, 12, 14>>

\* 'MV - SNA'
SnaSignature == <<77, 86, 32, 45, 32, 83, 78, 65>>

\* x in list
In(x, list) == \E i \in 1..Len(list) : list[i] = x

\* list.index(x), for x in list
ListIndex(list, x) ==
    CHOOSE i \in 0..(Len(list) - 1) :
        list[i + 1] = x /\ \A j \in 0..(i - 1) : list[j + 1] # x

\* self.header[i] = v
SetHeader(self, i, v) ==
    IF v \notin 0..255 THEN Raised(self, "ValueError")
    ELSE IF ~InRange(self.header, i) THEN Raised(self, "IndexError")
    ELSE Done([self EXCEPT !.header = SetItem(self.header, Index(self.header, i), v)])

\* self.header[i]
GetHeader(self, i) ==
    IF ~InRange(self.header, i) THEN Raise("IndexError")
    ELSE Return(GetItem(self.header, Index(self.header, i)))

\* get_z80_register_offset with the pairs one byte after their low halves.
get_z80_register_offset_PairsOneByteOn(register) ==
    IF In(register, z80_registers_8bit)
    THEN LET register_index == ListIndex(z80_registers_8bit, register) IN
         IF register_index <= 9 THEN Return(register_index + 17)
         ELSE Return(register_index + 28)
    ELSE IF In(register, z80_registers_16bit)
    THEN LET register_index == ListIndex(z80_registers_16bit, register) IN
         IF register_index <= 3 THEN Return(register_index * 2 + 18)
         ELSE IF register_index <= 7 THEN Return(register_index * 2 + 21)
         ELSE Return(register_index * 2 + 23)
    ELSE Raise("InvalidZ80RegisterError")

get_z80_register_offset(register) ==
    IF In(register, z80_registers_8bit)
    THEN LET register_index == ListIndex(z80_registers_8bit, register) IN
         IF register_index <= 9 THEN Return(register_index + 17)
         ELSE Return(register_index + 28)
    ELSE IF In(register, z80_registers_16bit)
    THEN LET register_index == ListIndex(z80_registers_16bit, register) IN
         IF register_index <= 3 THEN Return(register_index * 2 + 17)
         ELSE IF register_index <= 7 THEN Return(register_index * 2 + 21)
         ELSE Return(register_index * 2 + 22)
    ELSE Raise("InvalidZ80RegisterError")

get_z80_register(self, register) ==
    LET offset == get_z80_register_offset(register) IN
    IF In(register, z80_registers_8bit)
    THEN GetHeader(self, offset.ret)
    ELSE IF In(register, z80_registers_16bit)
    THEN LET lo == GetHeader(self, offset.ret)
             hi == GetHeader(self, offset.ret + 1)
         IN  IF lo.raised # "" THEN lo
             ELSE IF hi.raised # "" THEN hi
             ELSE Return(lo.ret + 256 * hi.ret)
    ELSE Raise("InvalidZ80RegisterError")

\* set_z80_register storing the high byte of a 16-bit register first.
set_z80_register_HighByteFirst(self, register, value) ==
    LET offset == get_z80_register_offset(register) IN
    IF offset.raised # "" THEN Raised(self, "InvalidZ80RegisterError")
    ELSE IF In(register, z80_registers_8bit)
    THEN IF value \notin 0..255 THEN Raised(self, "ValueError")
         ELSE SetHeader(self, offset.ret, value)
    ELSE IF value \notin 0..65535 THEN Raised(self, "ValueError")
    ELSE LET hi == SetHeader(self, offset.ret, value \div 256) IN
         IF hi.raised # "" THEN hi
         ELSE SetHeader(hi.self, offset.ret + 1, value % 256)

set_z80_register(self, register, value) ==
    LET offset == get_z80_register_offset(register) IN
    IF offset.raised # "" THEN Raised(self, "InvalidZ80RegisterError")
    ELSE IF In(register, z80_registers_8bit)
    THEN IF value \notin 0..255 THEN Raised(self, "ValueError")
         ELSE SetHeader(self, offset.ret, value)
    ELSE IF value \notin 0..65535 THEN Raised(self, "ValueError")
    ELSE LET lo == SetHeader(self, offset.ret, value % 256) IN
         IF lo.raised # "" THEN lo
         ELSE SetHeader(lo.self, offset.ret + 1, value \div 256)

\* Both assignments read self.header[0x1b]: the second one reads what the
\* first one stored.
enable_interrupts(self) ==
    LET iff0 == GetHeader(self, 27) IN
    IF iff0.raised # "" THEN Raised(self, iff0.raised)
    ELSE LET first == SetHeader(self, 27, BitOr(BitAnd(iff0.ret, 254), 1)) IN
         IF first.raised # "" THEN first
         ELSE SetHeader(first.self, 28,
                        BitOr(BitAnd(GetHeader(first.self, 27).ret, 254), 1))

disable_interrupts(self) ==
    LET iff0 == GetHeader(self, 27) IN
    IF iff0.raised # "" THEN Raised(self, iff0.raised)
    ELSE LET first == SetHeader(self, 27, BitAnd(iff0.ret, 254)) IN
         IF first.raised # "" THEN first
         ELSE SetHeader(first.self, 28, BitAnd(GetHeader(first.self, 27).ret, 254))

validate_hardware_ink_colour(colour) == colour \in 0..31 \/ colour \in 64..95

get_ink(self, ink) ==
    LET byte == GetHeader(self, ink + 47) IN
    IF byte.raised # "" THEN byte ELSE Return(BitAnd(byte.ret, 63))

get_firmware_ink(self, ink) ==
    LET byte == GetHeader(self, ink + 47) IN
    IF byte.raised # "" THEN byte
    ELSE IF BitAnd(byte.ret, 63) >= Len(firmware_inks) THEN Raise("IndexError")
    ELSE Return(firmware_inks[BitAnd(byte.ret, 63) + 1])

get_border(self) ==
    LET byte == GetHeader(self, 63) IN
    IF byte.raised # "" THEN byte ELSE Return(BitAnd(byte.ret, 63))

get_firmware_border(self) ==
    LET border == get_border(self) IN
    IF border.raised # "" THEN border
    ELSE IF border.ret >= Len(firmware_inks) THEN Raise("IndexError")
    ELSE Return(firmware_inks[border.ret + 1])

set_ink(self, ink, colour) ==
    IF ink \notin 0..15 THEN Raised(self, "ValueError")
    ELSE IF colour \notin 0..31 THEN Raised(self, "ValueError")
    ELSE SetHeader(self, ink + 47, colour)

RECURSIVE set_inks_loop(_, _, _)
set_inks_loop(self, inks, ink) ==
    IF ink >= Len(inks) THEN Done(self)
    ELSE IF ~validate_hardware_ink_colour(inks[ink + 1]) THEN Raised(self, "ValueError")
    ELSE LET set == set_ink(self, ink, inks[ink + 1]) IN
         IF set.raised # "" THEN set ELSE set_inks_loop(set.self, inks, ink + 1)

\* set_inks with range(1,16) for the lengths: 16 inks are refused.
set_inks_RefusesSixteen(self, inks) ==
    IF Len(inks) \notin 1..15 THEN Raised(self, "ListSizeError")
    ELSE set_inks_loop(self, inks, 0)

set_inks(self, inks) ==
    IF Len(inks) \notin 1..16 THEN Raised(self, "ListSizeError")
    ELSE set_inks_loop(self, inks, 0)

\* set_firmware_ink storing the firmware colour itself, untranslated.
set_firmware_ink_Untranslated(self, ink, colour) ==
    IF ink \notin 0..15 THEN Raised(self, "ValueError")
    ELSE IF colour \notin 0..31 THEN Raised(self, "ValueError")
    ELSE SetHeader(self, ink + 47, colour)

set_firmware_ink(self, ink, colour) ==
    IF ink \notin 0..15 THEN Raised(self, "ValueError")
    ELSE IF colour \notin 0..31 THEN Raised(self, "ValueError")
    ELSE IF ~In(colour, firmware_inks) THEN Raised(self, "ValueError")
    ELSE SetHeader(self, ink + 47, ListIndex(firmware_inks, colour))

RECURSIVE set_firmware_inks_loop(_, _, _)
set_firmware_inks_loop(self, inks, ink) ==
    IF ink >= Len(inks) THEN Done(self)
    ELSE IF inks[ink + 1] \notin 0..31 THEN Raised(self, "ValueError")
    ELSE IF ~In(inks[ink + 1], firmware_inks) THEN Raised(self, "ValueError")
    ELSE LET set == SetHeader(self, ink + 47, ListIndex(firmware_inks, inks[ink + 1])) IN
         IF set.raised # "" THEN set
         ELSE set_firmware_inks_loop(set.self, inks, ink + 1)

set_firmware_inks(self, inks) ==
    IF Len(inks) \notin 1..16 THEN Raised(self, "ListSizeError")
    ELSE set_firmware_inks_loop(self, inks, 0)

set_border(self, colour) ==
    IF ~validate_hardware_ink_colour(colour) THEN Raised(self, "ValueError")
    ELSE SetHeader(self, 63, colour)

\* firmware_inks.index(colour) raises ValueError for a colour the table does
\* not hold.
set_firmware_border(self, colour) ==
    IF ~validate_hardware_ink_colour(colour) THEN Raised(self, "ValueError")
    ELSE IF ~In(colour, firmware_inks) THEN Raised(self, "ValueError")
    ELSE SetHeader(self, 63, ListIndex(firmware_inks, colour))

get_screen_mode(self) ==
    LET byte == GetHeader(self, 64) IN
    IF byte.raised # "" THEN byte ELSE Return(BitAnd(byte.ret, 3))

\* set_screen_mode with the mask 0xf0, which clears the ROM bits too.
set_screen_mode_ClearsRomBits(self, screen_mode) ==
    IF screen_mode \notin 0..3 THEN Raised(self, "ValueError")
    ELSE LET byte == GetHeader(self, 64) IN
         IF byte.raised # "" THEN Raised(self, byte.raised)
         ELSE SetHeader(self, 64, BitOr(BitAnd(byte.ret, 240), screen_mode))

set_screen_mode(self, screen_mode) ==
    IF screen_mode \notin 0..3 THEN Raised(self, "ValueError")
    ELSE LET byte == GetHeader(self, 64) IN
         IF byte.raised # "" THEN Raised(self, byte.raised)
         ELSE SetHeader(self, 64, BitOr(BitAnd(byte.ret, 252), screen_mode))

\* <<lower_rom_enabled, upper_rom_enabled>>
get_rom_status(self) ==
    LET byte == GetHeader(self, 64) IN
    IF byte.raised # "" THEN byte
    ELSE Return(<<BitAnd(byte.ret, 4) = 0, BitAnd(byte.ret, 8) = 0>>)

\* self.header[0x40] = (self.header[0x40] & mask) | bits
SetRomBits(self, mask, bits) ==
    LET byte == GetHeader(self, 64) IN
    IF byte.raised # "" THEN Raised(self, byte.raised)
    ELSE SetHeader(self, 64, BitOr(BitAnd(byte.ret, mask), bits))

enable_lower_rom(self) == SetRomBits(self, 251, 0)

disable_lower_rom(self) == SetRomBits(self, 251, 4)

enable_upper_rom(self) == SetRomBits(self, 247, 0)

disable_upper_rom(self) == SetRomBits(self, 247, 8)

get_upper_rom_number(self) == GetHeader(self, 85)

set_upper_rom_number(self, upper_rom_number) ==
    IF upper_rom_number \notin 0..255 THEN Raised(self, "ValueError")
    ELSE SetHeader(self, 85, upper_rom_number)

get_machine_type(self) == GetHeader(self, 109)

\* set_machine_type with range(0,4): the unknown type 3 is accepted.
set_machine_type_AcceptsThree(self, machine_type) ==
    IF machine_type \notin 0..3 THEN Raised(self, "ValueError")
    ELSE SetHeader(self, 109, machine_type)

set_machine_type(self, machine_type) ==
    IF machine_type \notin 0..2 THEN Raised(self, "ValueError")
    ELSE SetHeader(self, 109, machine_type)

get_crtc_register(self, register) ==
    IF register \notin 0..17 THEN Raise("ValueError")
    ELSE GetHeader(self, register + 67)

set_crtc_register(self, register, value) ==
    IF register \notin 0..17 THEN Raised(self, "ValueError")
    ELSE IF value \notin 0..255 THEN Raised(self, "ValueError")
    ELSE SetHeader(self, register + 67, value)

RECURSIVE set_crtc_registers_loop(_, _, _)
set_crtc_registers_loop(self, registers, register) ==
    IF register >= Len(registers) THEN Done(self)
    ELSE IF registers[register + 1] \notin 0..255 THEN Raised(self, "ValueError")
    ELSE LET set == set_crtc_register(self, register, registers[register + 1]) IN
         IF set.raised # "" THEN set
         ELSE set_crtc_registers_loop(set.self, registers, register + 1)

\* range(1,18) ends at 17.
set_crtc_registers(self, registers) ==
    IF Len(registers) \notin 1..17 THEN Raised(self, "ListSizeError")
    ELSE set_crtc_registers_loop(self, registers, 0)

get_ram_size(self) == GetHeader(self, 107)

insert_bytes(self, bytes, start_offset) ==
    LET end_offset == bytes.len + start_offset - 1 IN
    IF start_offset < 65536 /\ end_offset >= 65536 THEN Raised(self, "MemoryError")
    ELSE IF start_offset >= 65536 /\ end_offset >= self.memory.len
         THEN Raised(self, "MemoryError")
    ELSE Done([self EXCEPT !.memory =
                  SetSlice(self.memory, start_offset, start_offset + bytes.len, bytes)])

\* insert_file(filepath, start_offset), for a file whose content is file.
insert_file(self, file, start_offset) ==
    LET file_size == file.len
        end_offset == file_size + start_offset - 1
    IN  IF end_offset >= self.memory.len THEN Raised(self, "MemoryError")
        ELSE IF start_offset < 65536 /\ end_offset >= 65536 /\ self.memory.len >= 65536
             THEN Raised(self, "MemoryError")
        ELSE Done([self EXCEPT !.memory =
                      SetSlice(self.memory, start_offset, end_offset + 1,
                               FileRead(file, 0, file_size))])

\* The blank snapshot with 1000 bytes to the kilobyte.
Snapshot_blank_Kilobytes(ram_size) ==
    [header |-> bytearray(256), memory |-> bytearray(ram_size * 1000)]

\* The header and the memory a blank snapshot starts from.
Snapshot_blank(ram_size) ==
    [header |-> bytearray(256), memory |-> bytearray(ram_size * 1024)]

\* Snapshot_new choosing screen mode 0 for the blank snapshot.
Snapshot_new_Mode0(ram_size) ==
    LET blank == Snapshot_blank(ram_size)
        version == SetHeader(blank, 16, 2)
        size == IF version.raised # "" THEN version
                ELSE SetHeader(version.self, 107, ram_size)
        signature == IF size.raised # "" THEN size
                     ELSE Done([size.self EXCEPT !.header =
                              SetSlice(size.self.header, 0, 8, FromList(SnaSignature))])
        crtc == IF signature.raised # "" THEN signature
                ELSE set_crtc_registers(signature.self,
                         <<63, 40, 46, 142, 38, 0, 25, 30, 0, 7, 0, 0, 48, 0, 192, 0>>)
        inks == IF crtc.raised # "" THEN crtc
                ELSE set_inks(crtc.self, [i \in 1..16 |-> 20])
        border == IF inks.raised # "" THEN inks ELSE set_border(inks.self, 20)
        mode == IF border.raised # "" THEN border ELSE set_screen_mode(border.self, 0)
        lower == IF mode.raised # "" THEN mode ELSE disable_lower_rom(mode.self)
        upper == IF lower.raised # "" THEN lower ELSE disable_upper_rom(lower.self)
        interrupts == IF upper.raised # "" THEN upper ELSE disable_interrupts(upper.self)
    IN  IF ram_size \notin {64, 128}
        THEN Raised([header |-> bytearray(0), memory |-> bytearray(0)], "ValueError")
        ELSE IF interrupts.raised # "" THEN interrupts
        ELSE SetHeader(interrupts.self, 89, 130)

\* Snapshot(ram_size=ram_size): a blank snapshot.  Every step runs on the
\* object the step before it left, and an exception ends the construction.
Snapshot_new(ram_size) ==
    LET blank == Snapshot_blank(ram_size)
        version == SetHeader(blank, 16, 2)
        size == IF version.raised # "" THEN version
                ELSE SetHeader(version.self, 107, ram_size)
        signature == IF size.raised # "" THEN size
                     ELSE Done([size.self EXCEPT !.header =
                              SetSlice(size.self.header, 0, 8, FromList(SnaSignature))])
        crtc == IF signature.raised # "" THEN signature
                ELSE set_crtc_registers(signature.self,
                         <<63, 40, 46, 142, 38, 0, 25, 30, 0, 7, 0, 0, 48, 0, 192, 0>>)
        inks == IF crtc.raised # "" THEN crtc
                ELSE set_inks(crtc.self, [i \in 1..16 |-> 20])
        border == IF inks.raised # "" THEN inks ELSE set_border(inks.self, 20)
        mode == IF border.raised # "" THEN border ELSE set_screen_mode(border.self, 1)
        lower == IF mode.raised # "" THEN mode ELSE disable_lower_rom(mode.self)
        upper == IF lower.raised # "" THEN lower ELSE disable_upper_rom(lower.self)
        interrupts == IF upper.raised # "" THEN upper ELSE disable_interrupts(upper.self)
    IN  IF ram_size \notin {64, 128}
        THEN Raised([header |-> bytearray(0), memory |-> bytearray(0)], "ValueError")
        ELSE IF interrupts.raised # "" THEN interrupts
        ELSE SetHeader(interrupts.self, 89, 130)

\* Snapshot(filepath, ram_size), for a file whose content is file.
Snapshot_open(file, ram_size) ==
    LET header == FileRead(file, 0, 256)
        none == [header |-> bytearray(0), memory |-> bytearray(0)]
    IN  IF ram_size \notin {64, 128} THEN Raised(none, "ValueError")
        ELSE IF GetSlice(header, 0, 8) # FromList(SnaSignature)
             THEN Raised(none, "FileFormatError")
        ELSE IF ~InRange(header, 16) THEN Raised(none, "IndexError")
        ELSE IF GetItem(header, 16) # 2 THEN Raised(none, "FileFormatError")
        ELSE IF ReadRaises(file.len - 256) THEN Raised(none, "ValueError")
        ELSE Done([header |-> header,
                   memory |-> FileRead(file, header.len, file.len - 256)])

\* snapshot.write(filepath): the content of the file written
Snapshot_write(self) == Concat(self.header, self.memory)

(***************************************************************************)
(* The state of a component that is not in use.                            *)
(***************************************************************************)
NoDisk == [header |-> bytearray(0), track_info_block |-> bytearray(0)]

NoCall == [op |-> "none", raised |-> "", ret |-> 0]

DiskIdle ==
    /\ dsk_file = bytearray(0)
    /\ dsk = NoDisk
    /\ dsk_pre = NoDisk
    /\ dsk_call = NoCall
    /\ dsk_n = 0
    /\ dsk_writes = 0

NoSnapshot == [header |-> bytearray(0), memory |-> bytearray(0)]

SnapshotIdle ==
    /\ sna = NoSnapshot
    /\ sna_pre = NoSnapshot
    /\ sna_call = NoCall
    /\ sna_n = 0

PixelIdle ==
    /\ pixels = <<>>
    /\ encoded = NotCalled
    /\ decoded = NotCalled

PaletteIdle ==
    /\ palette = <<>>
    /\ converted = NoCall

(***************************************************************************)
(* The pixel codec's inputs: every list of 2 values in -1..MaxPixel2, every *)
(* list of 4 values in -1..MaxPixel4, and lists of the other lengths up to *)
(* MaxPixels.                                                              *)
(***************************************************************************)
MaxPixel2 == 16

MaxPixel4 == 4

MaxPixels == 5

MaxByte == 256

MaxScreenMode == 2

PixelLists ==
    [1..2 -> -1..MaxPixel2] \cup [1..4 -> -1..MaxPixel4]
    \cup UNION {[1..n -> 0..1] : n \in (0..MaxPixels) \ {2, 4}}

PixelInit ==
    /\ pixels \in PixelLists
    /\ encoded = NotCalled
    /\ decoded = NotCalled
    /\ DiskIdle
    /\ SnapshotIdle
    /\ PaletteIdle

Encode ==
    /\ encoded = NotCalled
    /\ encoded' = encode_pixels(pixels)
    /\ UNCHANGED <<pixels, decoded, DiskVars, SnapshotVars, PaletteVars>>

\* decode_pixels on the byte that encode_pixels returned, or on a value that
\* is no byte, in any screen mode.
Decode ==
    /\ encoded.raised = ""
    /\ decoded = NotCalled
    /\ \E byte \in {encoded.ret, -1, MaxByte}, screen_mode \in -1..MaxScreenMode :
          decoded' = [byte |-> byte, screen_mode |-> screen_mode,
                      raised |-> decode_pixels(byte, screen_mode).raised,
                      ret |-> decode_pixels(byte, screen_mode).ret]
    /\ UNCHANGED <<pixels, encoded, DiskVars, SnapshotVars, PaletteVars>>

PixelNext == Encode \/ Decode

SpecPixel == PixelInit /\ [][PixelNext]_vars

(***************************************************************************)
(* The pixel codec's properties.                                           *)
(***************************************************************************)
ValidPixels(p) ==
    \/ Len(p) = 2 /\ \A i \in 1..2 : p[i] \in 0..15
    \/ Len(p) = 4 /\ \A i \in 1..4 : p[i] \in 0..3

ModeOf(p) == IF Len(p) = 2 THEN 0 ELSE 1

\* Bit n of x, by arithmetic.
Bit(x, n) == (x \div (2 ^ n)) % 2

\* C1: encode_pixels accepts exactly the lists of 2 values in 0..15 and of 4
\* values in 0..3, and decode_pixels of the byte it returns, in mode 0 for a
\* 2-value list and mode 1 for a 4-value list, returns the list itself.
C1_RoundTrip ==
    /\ encoded # NotCalled => (encoded.raised = "" <=> ValidPixels(pixels))
    /\ (/\ decoded # NotCalled
        /\ decoded.byte = encoded.ret
        /\ decoded.screen_mode = ModeOf(pixels))
       => decoded.raised = "" /\ decoded.ret = pixels

C1_Witness ==
    /\ pixels = <<1, 2, 3, 0>>
    /\ decoded # NotCalled
    /\ decoded.screen_mode = 1
    /\ decoded.byte = encoded.ret
    /\ decoded.ret = <<1, 2, 3, 0>>

\* The hardware layout of a byte, most significant bit first:
\* L0 R0 L2 R2 L1 R1 L3 R3 for 2 pixels, and
\* P0,0 P1,0 P2,0 P3,0 P0,1 P1,1 P2,1 P3,1 for 4 pixels.
HardwareByte(p) ==
    IF Len(p) = 2
    THEN Bit(p[1], 0) * 128 + Bit(p[2], 0) * 64 + Bit(p[1], 2) * 32
         + Bit(p[2], 2) * 16 + Bit(p[1], 1) * 8 + Bit(p[2], 1) * 4
         + Bit(p[1], 3) * 2 + Bit(p[2], 3)
    ELSE Bit(p[1], 0) * 128 + Bit(p[2], 0) * 64 + Bit(p[3], 0) * 32
         + Bit(p[4], 0) * 16 + Bit(p[1], 1) * 8 + Bit(p[2], 1) * 4
         + Bit(p[3], 1) * 2 + Bit(p[4], 1)

\* C2: the byte encode_pixels returns is the hardware layout of its pixels;
\* [0,0] encodes to 0x00 and [15,15] to 0xFF.
C2_HardwareLayout ==
    (encoded # NotCalled /\ ValidPixels(pixels)) =>
        /\ encoded.raised = ""
        /\ encoded.ret = HardwareByte(pixels)
        /\ pixels = <<0, 0>> => encoded.ret = 0
        /\ pixels = <<15, 15>> => encoded.ret = 255

C2_Witness ==
    /\ pixels = <<0, 1, 2, 3>>
    /\ encoded.raised = ""
    /\ encoded.ret = 83

(***************************************************************************)
(* The disk images.  A file is a 256-byte disk information block and one   *)
(* track information block per track that has data; a track is laid out   *)
(* as one of TrackLayouts, a list of sector descriptors [R, N, size], or   *)
(* has no data.  Sector j of track t starts and ends with the byte         *)
(* 16 * (t + 1) + j + 1, so that every sector's data is its own.  Files    *)
(* are given whole and cut short, as the constructor reads both.           *)
(***************************************************************************)
MaxTracks == 2

MaxDiskCalls == 2

TrackLayouts ==
    << << [R |-> 33, N |-> 0, size |-> 128], [R |-> 34, N |-> 0, size |-> 128] >>,
       << [R |-> 34, N |-> 1, size |-> 256], [R |-> 33, N |-> 0, size |-> 128],
          [R |-> 34, N |-> 0, size |-> 128] >>,
       << [R |-> 33, N |-> 1, size |-> 128], [R |-> 35, N |-> 0, size |-> 128] >>,
       << >> >>

SectorIds == {33, 34, 35}

RECURSIVE SumSizes(_, _)
SumSizes(layout, n) == IF n = 0 THEN 0 ELSE layout[n].size + SumSizes(layout, n - 1)

\* The size of a track information block, in units of 256 bytes.
TrackSizeCode(layout) == (256 + SumSizes(layout, Len(layout)) + 255) \div 256

\* The bytes of a bytearray given as a set of <<index, byte>> pairs.
FromPairs(n, pairs) ==
    [len |-> n,
     nz |-> [k \in {p[1] : p \in {q \in pairs : q[2] # 0}} |->
                (CHOOSE p \in pairs : p[1] = k)[2]]]

TrackBlock(t, layout) ==
    FromPairs(TrackSizeCode(layout) * 256,
        {<<0, 84>>, <<16, t>>, <<21, Len(layout)>>}
        \cup UNION {
            { <<24 + 8 * (j - 1), t>>,
              <<24 + 8 * (j - 1) + 2, layout[j].R>>,
              <<24 + 8 * (j - 1) + 3, layout[j].N>>,
              <<24 + 8 * (j - 1) + 6, layout[j].size % 256>>,
              <<24 + 8 * (j - 1) + 7, layout[j].size \div 256>>,
              <<256 + SumSizes(layout, j - 1), 16 * (t + 1) + j>>,
              <<256 + SumSizes(layout, j) - 1, 16 * (t + 1) + j>> }
            : j \in 1..Len(layout)})

\* tracks[t + 1] is 0 when track t has no data, or the number of its layout.
DiskHeader(tracks) ==
    FromPairs(256,
        {<<i - 1, DskSignature[i]>> : i \in 1..23}
        \cup {<<48, Len(tracks)>>, <<49, 1>>}
        \cup {<<52 + t, IF tracks[t + 1] = 0 THEN 0
                        ELSE TrackSizeCode(TrackLayouts[tracks[t + 1]])>>
              : t \in 0..(Len(tracks) - 1)})

RECURSIVE TrackBlocks(_, _)
TrackBlocks(tracks, n) ==
    IF n = 0 THEN bytearray(0)
    ELSE IF tracks[n] = 0 THEN TrackBlocks(tracks, n - 1)
    ELSE Concat(TrackBlocks(tracks, n - 1), TrackBlock(n - 1, TrackLayouts[tracks[n]]))

DiskFile(tracks) == Concat(DiskHeader(tracks), TrackBlocks(tracks, Len(tracks)))

\* The last track of a disk has any layout or no data; the tracks before it
\* have no data or the second layout.
TrackLists ==
    {<<>>} \cup
    UNION {{Append(first, last) : first \in [1..(n - 1) -> {0, 2}],
                                  last \in 0..Len(TrackLayouts)} : n \in 1..MaxTracks}

\* The whole files, the files less their last 200 bytes, files that end
\* inside the disk information block (the constructor's read of the rest
\* raises ValueError for a file of fewer than 255 bytes), and one with the
\* signature of the standard (not extended) format.
DiskFiles ==
    {DiskFile(tracks) : tracks \in TrackLists}
    \cup {GetSlice(DiskFile(tracks), 0, DiskFile(tracks).len - 200) :
             tracks \in {t \in TrackLists : Len(t) = 1}}
    \cup {GetSlice(DiskFile(<<1>>), 0, 255), GetSlice(DiskFile(<<1>>), 0, 254),
          GetSlice(DiskFile(<<1>>), 0, 23),
          SetSlice(DiskFile(<<1>>), 0, 8, FromList(<<77, 86, 32, 45, 32, 67, 80, 67>>))}

\* The data handed to write_sector: 128 bytes and 256 bytes.
DataBuffers ==
    { FromPairs(128, {<<0, 170>>, <<127, 85>>}),
      FromPairs(256, {<<0, 204>>, <<255, 51>>}) }

DiskInit ==
    /\ dsk_file \in DiskFiles
    /\ dsk = NoDisk
    /\ dsk_pre = NoDisk
    /\ dsk_call = NoCall
    /\ dsk_n = 0
    /\ dsk_writes = 0
    /\ PixelIdle
    /\ SnapshotIdle
    /\ PaletteIdle

DiskCall(op, track, sector, data, res) ==
    [op |-> op, track |-> track, sector |-> sector, data |-> data,
     raised |-> res.raised, ret |-> res.ret]

\* abadia_dsk = DiskImage(filepath)
DiskOpen ==
    /\ dsk_call = NoCall
    /\ LET res == DiskImage_init(dsk_file) IN
        /\ dsk' = IF res.raised = "" THEN res.self ELSE NoDisk
        /\ dsk_call' = DiskCall("DiskImage", 0, 0, bytearray(0), res)
    /\ UNCHANGED <<dsk_file, dsk_pre, dsk_n, dsk_writes, PixelVars, SnapshotVars, PaletteVars>>

GetSectorInfo ==
    /\ dsk # NoDisk
    /\ dsk_n < MaxDiskCalls
    /\ \E track \in -1..MaxTracks :
          dsk_call' = DiskCall("get_sector_info", track, 0, bytearray(0),
                               get_sector_info(dsk, track))
    /\ dsk_pre' = dsk
    /\ dsk_n' = dsk_n + 1
    /\ UNCHANGED <<dsk_file, dsk, dsk_writes, PixelVars, SnapshotVars, PaletteVars>>

ReadSector ==
    /\ dsk # NoDisk
    /\ dsk_n < MaxDiskCalls
    /\ \E track \in -1..MaxTracks, sector \in SectorIds :
          dsk_call' = DiskCall("read_sector", track, sector, bytearray(0),
                               read_sector(dsk, track, sector))
    /\ dsk_pre' = dsk
    /\ dsk_n' = dsk_n + 1
    /\ UNCHANGED <<dsk_file, dsk, dsk_writes, PixelVars, SnapshotVars, PaletteVars>>

WriteSector ==
    /\ dsk # NoDisk
    /\ dsk_n < MaxDiskCalls
    /\ \E track \in -1..MaxTracks, sector \in SectorIds, data \in DataBuffers :
          LET res == write_sector(dsk, track, sector, data) IN
            /\ dsk' = res.self
            /\ dsk_call' = DiskCall("write_sector", track, sector, data, res)
            /\ dsk_writes' = IF res.raised = "" THEN dsk_writes + 1 ELSE dsk_writes
    /\ dsk_pre' = dsk
    /\ dsk_n' = dsk_n + 1
    /\ UNCHANGED <<dsk_file, PixelVars, SnapshotVars, PaletteVars>>

\* The disk image written back to a file.
WriteDiskImage ==
    /\ dsk # NoDisk
    /\ dsk_call.op # "write"
    /\ dsk_call' = DiskCall("write", 0, 0, bytearray(0), Return(write_disk_image(dsk)))
    /\ dsk_pre' = dsk
    /\ UNCHANGED <<dsk_file, dsk, dsk_n, dsk_writes, PixelVars, SnapshotVars, PaletteVars>>

DiskNext == DiskOpen \/ GetSectorInfo \/ ReadSector \/ WriteSector \/ WriteDiskImage

SpecDisk == DiskInit /\ [][DiskNext]_vars

(***************************************************************************)
(* The disk image's properties.  They are stated on the call recorded in   *)
(* dsk_call, on the object before it (dsk_pre) and after it (dsk).         *)
(***************************************************************************)
\* track is inside [0, track_count) and the header declares its size
TrackValid(d, track) ==
    /\ InRange(d.header, 48)
    /\ track \in 0..(GetItem(d.header, 48) - 1)
    /\ InRange(d.header, 52 + track)

\* the declared size of a track's information block
DeclaredSize(d, track) == GetItem(d.header, 52 + track) * 256

\* the sum of the declared sizes of tracks 0..track-1
RECURSIVE DeclaredSizesBefore(_, _)
DeclaredSizesBefore(d, track) ==
    IF track = 0 THEN 0
    ELSE DeclaredSize(d, track - 1) + DeclaredSizesBefore(d, track - 1)

\* whether a descriptor of the list has the sector id
HasSector(sector_info, sector) ==
    \E j \in 1..Len(sector_info) : sector_info[j][3] = sector

\* the first descriptor, in descriptor order, that has the sector id
FirstMatch(sector_info, sector) ==
    CHOOSE j \in 1..Len(sector_info) :
        /\ sector_info[j][3] = sector
        /\ \A i \in 1..(j - 1) : sector_info[i][3] # sector

\* the sum of the actual lengths of the descriptors before descriptor j
RECURSIVE LengthsBefore(_, _)
LengthsBefore(sector_info, j) ==
    IF j <= 1 THEN 0
    ELSE sector_info[j - 1][7] + LengthsBefore(sector_info, j - 1)

\* C3: write_sector on a track that holds the sector id raises
\* SectorWriteError when the data's length is not the actual length the
\* matching descriptor declares, and a write_sector call that fails leaves
\* header and track_info_block as they were.
C3_FailedWriteChangesNothing ==
    dsk_call.op = "write_sector" =>
        /\ dsk_call.raised # "" => dsk = dsk_pre
        /\ LET info == get_sector_info(dsk_pre, dsk_call.track) IN
             (/\ info.raised = ""
              /\ HasSector(info.ret, dsk_call.sector)
              /\ dsk_call.data.len # info.ret[FirstMatch(info.ret, dsk_call.sector)][7])
             => dsk_call.raised = "SectorWriteError"

C3_Witness ==
    /\ dsk_call.op = "write_sector"
    /\ dsk_call.raised = "SectorWriteError"
    /\ dsk_call.data.len = 256
    /\ dsk = dsk_pre
    /\ HasSector(get_sector_info(dsk_pre, dsk_call.track).ret, dsk_call.sector)

\* C4: on a track that is valid and has data, read_sector takes the first
\* descriptor that has the sector id and returns bytes of track_info_block
\* from offset T + 0x100 + S on, T the declared sizes of the tracks before
\* and S the actual lengths of the descriptors before (at least one byte
\* when track_info_block reaches that far); when no descriptor has the id it
\* raises InvalidSectorError.
C4_ReadSectorOffset ==
    (/\ dsk_call.op = "read_sector"
     /\ TrackValid(dsk, dsk_call.track)
     /\ DeclaredSize(dsk, dsk_call.track) # 0
     /\ get_sector_info(dsk, dsk_call.track).raised = "")
    => LET info == get_sector_info(dsk, dsk_call.track).ret
           start == DeclaredSizesBefore(dsk, dsk_call.track) + 256
                    + LengthsBefore(info, FirstMatch(info, dsk_call.sector))
       IN  IF ~HasSector(info, dsk_call.sector)
           THEN dsk_call.raised = "InvalidSectorError"
           ELSE /\ dsk_call.raised = ""
                /\ dsk_call.ret =
                     GetSlice(dsk.track_info_block, start, start + dsk_call.ret.len)
                /\ start < dsk.track_info_block.len => dsk_call.ret.len > 0

\* The second descriptor with id 0x22 is never read: track 1 of the disk
\* holds the descriptors 0x22, 0x21, 0x22 and sector 0x21 is read from
\* behind the first.
C4_Witness ==
    /\ dsk_call.op = "read_sector"
    /\ dsk_call.track = 1
    /\ dsk_call.sector = 33
    /\ dsk_call.raised = ""
    /\ Len(get_sector_info(dsk, 1).ret) = 3
    /\ DeclaredSizesBefore(dsk, 1) = 768
    /\ dsk_call.ret.len = 128
    /\ dsk_call.ret = GetSlice(dsk.track_info_block, 768 + 256 + 256, 768 + 256 + 384)
    /\ GetItem(dsk_call.ret, 0) = 34

\* C5: on a track inside [0, track_count) whose declared size is zero,
\* get_sector_info returns the empty list and read_sector and write_sector
\* raise TrackDataError.
C5_TrackWithoutData ==
    (/\ dsk_call.op \in {"get_sector_info", "read_sector", "write_sector"}
     /\ TrackValid(dsk_pre, dsk_call.track)
     /\ DeclaredSize(dsk_pre, dsk_call.track) = 0)
    => IF dsk_call.op = "get_sector_info"
       THEN dsk_call.raised = "" /\ dsk_call.ret = <<>>
       ELSE dsk_call.raised = "TrackDataError"

C5_Witness ==
    /\ dsk_call.op = "read_sector"
    /\ TrackValid(dsk_pre, dsk_call.track)
    /\ DeclaredSize(dsk_pre, dsk_call.track) = 0
    /\ dsk_call.raised = "TrackDataError"

\* C6: the disk image written back before any sector was written is the
\* file it was made from, byte for byte.
C6_SerializeRoundTrip ==
    (dsk_call.op = "write" /\ dsk_writes = 0) => dsk_call.ret = dsk_file

\* a file with two tracks, and a file cut inside the last sector
C6_Witness ==
    /\ dsk_call.op = "write"
    /\ dsk_writes = 0
    /\ dsk_call.ret = dsk_file
    /\ dsk_file.len = 256 + 512 - 200

(***************************************************************************)
(* The snapshots.  A snapshot is made blank, or from one of SnapshotFiles: *)
(* a version 2 file of a 64 KiB machine whose header holds an ink in the   *)
(* 0x40..0x5F form, machine type 3 and interrupt flags that differ; the    *)
(* same header followed by 100 bytes of memory only; files cut inside the  *)
(* header; a version 1 file and a file with another signature.             *)
(***************************************************************************)
MaxSnapshotCalls == 2

FileHeader ==
    FromPairs(256,
        {<<i - 1, SnaSignature[i]>> : i \in 1..8}
        \cup {<<16, 2>>, <<19, 52>>, <<20, 18>>, <<27, 1>>, <<28, 2>>, <<47, 84>>,
              <<52, 11>>, <<63, 84>>, <<64, 141>>, <<107, 64>>, <<109, 3>>})

FileMemory == FromPairs(65536, {<<0, 195>>, <<65535, 201>>})

SnapshotFiles ==
    { Concat(FileHeader, FileMemory),
      Concat(FileHeader, FromPairs(100, {<<0, 195>>})),
      GetSlice(FileHeader, 0, 255),
      GetSlice(FileHeader, 0, 200),
      GetSlice(FileHeader, 0, 10),
      Concat(SetItem(FileHeader, 16, 1), FileMemory),
      Concat(SetItem(FileHeader, 0, 82), FileMemory) }

\* The buffers and files inserted: 10 bytes and none.
InsertBuffers == {FromPairs(10, {<<0, 17>>, <<9, 34>>}), bytearray(0)}

\* The offsets of an insertion: -1, 0xFFF0, 0xFFFC, 0x10000, 0x1FFF6, 0x1FFFC.
InsertOffsets == {-1, 65520, 65532, 65536, 131062, 131068}

SnapshotInit ==
    /\ sna = NoSnapshot
    /\ sna_pre = NoSnapshot
    /\ sna_call = NoCall
    /\ sna_n = 0
    /\ PixelIdle
    /\ DiskIdle
    /\ PaletteIdle

\* The constructor's call: the object exists when nothing was raised.
SnapshotMade(op, args, res) ==
    /\ sna_call = NoCall
    /\ sna' = IF res.raised = "" THEN res.self ELSE NoSnapshot
    /\ sna_call' = [op |-> op, args |-> args, raised |-> res.raised, ret |-> res.ret]
    /\ UNCHANGED <<sna_pre, sna_n, PixelVars, DiskVars, PaletteVars>>

\* A method's call on the snapshot.
SnapshotCalled(op, args, res) ==
    /\ sna # NoSnapshot
    /\ sna_n < MaxSnapshotCalls
    /\ sna' = res.self
    /\ sna_pre' = sna
    /\ sna_call' = [op |-> op, args |-> args, raised |-> res.raised, ret |-> res.ret]
    /\ sna_n' = sna_n + 1
    /\ UNCHANGED <<PixelVars, DiskVars, PaletteVars>>

New ==
    \E ram_size \in {0, 64, 65, 128} :
        SnapshotMade("new", <<ram_size>>, Snapshot_new(ram_size))

Open ==
    \E file \in SnapshotFiles, ram_size \in {64, 128} :
        SnapshotMade("open", <<file, ram_size>>, Snapshot_open(file, ram_size))

SetZ80Register ==
    \E register \in {"A", "B", "A'", "BC", "PC", "HL'", "XY"},
       value \in {-1, 18, 4660, 65536} :
        SnapshotCalled("set_z80_register", <<register, value>>,
                       set_z80_register(sna, register, value))

EnableInterrupts == SnapshotCalled("enable_interrupts", <<>>, enable_interrupts(sna))

DisableInterrupts == SnapshotCalled("disable_interrupts", <<>>, disable_interrupts(sna))

SetInk ==
    \E ink \in {5, 16}, colour \in {5, 69, 32} :
        SnapshotCalled("set_ink", <<ink, colour>>, set_ink(sna, ink, colour))

GetInk ==
    \E ink \in {5, 16} :
        LET res == get_ink(sna, ink) IN
        SnapshotCalled("get_ink", <<ink>>,
                       [self |-> sna, raised |-> res.raised, ret |-> res.ret])

GetFirmwareInk ==
    \E ink \in {5, 16} :
        LET res == get_firmware_ink(sna, ink) IN
        SnapshotCalled("get_firmware_ink", <<ink>>,
                       [self |-> sna, raised |-> res.raised, ret |-> res.ret])

SetInks ==
    \E inks \in {<<5>>, <<69>>, <<5, 69, 6>>, <<5, 96>>, <<>>,
                  [i \in 1..16 |-> i], [i \in 1..17 |-> 1]} :
        SnapshotCalled("set_inks", <<inks>>, set_inks(sna, inks))

SetFirmwareInk ==
    \E ink \in {0, 15, 16}, colour \in {0, 26, 27, 32} :
        SnapshotCalled("set_firmware_ink", <<ink, colour>>,
                       set_firmware_ink(sna, ink, colour))

SetFirmwareInks ==
    \E inks \in {<<26, 0>>, <<1, 32, 0>>, <<>>,
                  [i \in 1..16 |-> i], [i \in 1..17 |-> 1]} :
        SnapshotCalled("set_firmware_inks", <<inks>>, set_firmware_inks(sna, inks))

SetBorder ==
    \E colour \in {5, 69, 96} :
        SnapshotCalled("set_border", <<colour>>, set_border(sna, colour))

SetFirmwareBorder ==
    \E colour \in {0, 26, 27, 32, 69} :
        SnapshotCalled("set_firmware_border", <<colour>>,
                       set_firmware_border(sna, colour))

SetScreenMode ==
    \E screen_mode \in {0, 2, 3, 4} :
        SnapshotCalled("set_screen_mode", <<screen_mode>>,
                       set_screen_mode(sna, screen_mode))

EnableLowerRom == SnapshotCalled("enable_lower_rom", <<>>, enable_lower_rom(sna))

DisableLowerRom == SnapshotCalled("disable_lower_rom", <<>>, disable_lower_rom(sna))

EnableUpperRom == SnapshotCalled("enable_upper_rom", <<>>, enable_upper_rom(sna))

DisableUpperRom == SnapshotCalled("disable_upper_rom", <<>>, disable_upper_rom(sna))

SetUpperRomNumber ==
    \E upper_rom_number \in {7, 256} :
        SnapshotCalled("set_upper_rom_number", <<upper_rom_number>>,
                       set_upper_rom_number(sna, upper_rom_number))

SetMachineType ==
    \E machine_type \in {-1, 0, 2, 3} :
        SnapshotCalled("set_machine_type", <<machine_type>>,
                       set_machine_type(sna, machine_type))

SetCrtcRegister ==
    \E register \in {17, 18}, value \in {9, 256} :
        SnapshotCalled("set_crtc_register", <<register, value>>,
                       set_crtc_register(sna, register, value))

SetCrtcRegisters ==
    \E registers \in {<<1>>, <<1, 256, 2>>, <<>>, [i \in 1..17 |-> i],
                      [i \in 1..18 |-> i]} :
        SnapshotCalled("set_crtc_registers", <<registers>>,
                       set_crtc_registers(sna, registers))

InsertBytes ==
    \E bytes \in InsertBuffers, start_offset \in InsertOffsets :
        SnapshotCalled("insert_bytes", <<bytes, start_offset>>,
                       insert_bytes(sna, bytes, start_offset))

InsertFile ==
    \E file \in InsertBuffers, start_offset \in InsertOffsets :
        SnapshotCalled("insert_file", <<file, start_offset>>,
                       insert_file(sna, file, start_offset))

\* snapshot.write(filepath); the object is as it was.
Write ==
    /\ sna_call.op # "write"
    /\ SnapshotCalled("write", <<>>, [self |-> sna, raised |-> "", ret |-> Snapshot_write(sna)])

SnapshotNext ==
    \/ New \/ Open \/ SetZ80Register \/ EnableInterrupts \/ DisableInterrupts
    \/ SetInk \/ SetInks \/ SetFirmwareInk \/ SetFirmwareInks \/ SetBorder
    \/ SetFirmwareBorder \/ SetScreenMode \/ EnableLowerRom \/ DisableLowerRom
    \/ EnableUpperRom \/ DisableUpperRom \/ SetUpperRomNumber \/ SetMachineType
    \/ SetCrtcRegister \/ SetCrtcRegisters \/ InsertBytes \/ InsertFile \/ Write
    \/ GetInk \/ GetFirmwareInk

SpecSnapshot == SnapshotInit /\ [][SnapshotNext]_vars

(***************************************************************************)
(* The snapshot's properties.  sna_call is the last call, sna_pre the      *)
(* object before it and sna the object after it.                           *)
(***************************************************************************)

\* The range of an insertion crosses the 64KiB boundary at 0x10000, or runs
\* past the end of the memory.
InsertOutOfRange(memory, length, start_offset) ==
    \/ start_offset < 65536 /\ start_offset + length - 1 >= 65536
    \/ start_offset + length > memory.len

\* The memory is the memory before with bytes written at start_offset on,
\* every other byte and the length as they were.
Overwritten(memory, before, bytes, start_offset) ==
    /\ memory.len = before.len
    /\ \A k \in DOMAIN memory.nz \cup DOMAIN before.nz
                \cup start_offset..(start_offset + bytes.len - 1) :
           GetItem(memory, k) =
               IF k >= start_offset /\ k < start_offset + bytes.len
               THEN GetItem(bytes, k - start_offset)
               ELSE GetItem(before, k)

\* C7: insert_bytes(bytes, start_offset) raises MemoryError and leaves the
\* snapshot as it was when the range start_offset..start_offset+len(bytes)-1
\* crosses 0x10000 or runs past the end of the memory; otherwise it raises
\* nothing, writes exactly that range with bytes and leaves every other byte
\* and the length of the memory as they were.
C7_InsertBytes ==
    sna_call.op = "insert_bytes" =>
        LET bytes == sna_call.args[1]
            start_offset == sna_call.args[2]
        IN  IF InsertOutOfRange(sna_pre.memory, bytes.len, start_offset)
            THEN sna_call.raised = "MemoryError" /\ sna = sna_pre
            ELSE /\ sna_call.raised = ""
                 /\ sna.header = sna_pre.header
                 /\ Overwritten(sna.memory, sna_pre.memory, bytes, start_offset)

\* C8: whenever a snapshot exists, after Snapshot(ram_size=...) or
\* Snapshot(filepath) and after any calls of its methods with any offsets,
\* its header is 256 bytes long and its memory 65536 or 131072 bytes long,
\* which is get_ram_size() * 1024.
C8_HeaderAndMemoryLengths ==
    sna # NoSnapshot =>
        /\ sna.header.len = 256
        /\ sna.memory.len \in {65536, 131072}
        /\ get_ram_size(sna).raised = ""
        /\ sna.memory.len = get_ram_size(sna).ret * 1024

\* C9: Snapshot(ram_size=64) has a memory of 65536 bytes and get_ram_size()
\* 64, Snapshot(ram_size=128) a memory of 131072 bytes and get_ram_size()
\* 128; any other ram_size raises and no snapshot is made.
C9_BlankSnapshot ==
    sna_call.op = "new" =>
        LET ram_size == sna_call.args[1] IN
        IF ram_size \in {64, 128}
        THEN /\ sna_call.raised = ""
             /\ sna # NoSnapshot
             /\ sna.memory.len = (IF ram_size = 64 THEN 65536 ELSE 131072)
             /\ DOMAIN sna.memory.nz = {}
             /\ get_ram_size(sna) = Return(ram_size)
        ELSE sna_call.raised = "ValueError" /\ sna = NoSnapshot

\* Snapshot(ram_size=128) has made a blank snapshot.
C9_Witness ==
    /\ sna_call.op = "new"
    /\ sna_call.args = <<128>>
    /\ sna_call.raised = ""
    /\ sna.memory.len = 131072
    /\ GetItem(sna.header, 107) = 128

\* The colours 0x40..0x5F, which stand for the hardware colours 0..31.
AlternateColours == 64..95

\* The hardware colour a colour in either encoding stands for.
Normalised(colour) == IF colour \in AlternateColours THEN colour - 64 ELSE colour

\* C10: set_ink, set_inks and set_border accept a colour in 0x40..0x5F and
\* leave the snapshot in the state the same call with the colour less 0x40
\* leaves it in.
C10_AlternateEncoding ==
    /\ sna_call.op = "set_ink" /\ sna_call.args[1] \in 0..15
                               /\ sna_call.args[2] \in AlternateColours
           => /\ sna_call.raised = ""
              /\ sna = set_ink(sna_pre, sna_call.args[1],
                               Normalised(sna_call.args[2])).self
    /\ sna_call.op = "set_inks"
           => LET inks == sna_call.args[1] IN
              (/\ Len(inks) \in 1..16
               /\ \A i \in DOMAIN inks : inks[i] \in 0..31 \cup AlternateColours
               /\ \E i \in DOMAIN inks : inks[i] \in AlternateColours)
              => /\ sna_call.raised = ""
                 /\ sna = set_inks(sna_pre,
                                   [i \in DOMAIN inks |-> Normalised(inks[i])]).self
    /\ sna_call.op = "set_border" /\ sna_call.args[1] \in AlternateColours
           => /\ sna_call.raised = ""
              /\ sna = set_border(sna_pre, Normalised(sna_call.args[1])).self

\* C11: when set_inks, set_firmware_inks or set_crtc_registers is given a
\* list that holds an invalid element, at any position, the call fails; and
\* whenever one of the three fails, the header is byte for byte the header
\* before the call.
C11_BulkSettersValidateFirst ==
    LET values == sna_call.args[1]
        valid == IF sna_call.op = "set_inks" THEN 0..31 \cup AlternateColours
                 ELSE IF sna_call.op = "set_firmware_inks" THEN 0..31
                 ELSE 0..255
    IN  sna_call.op \in {"set_inks", "set_firmware_inks", "set_crtc_registers"} =>
            /\ (\E i \in DOMAIN values : values[i] \notin valid) => sna_call.raised # ""
            /\ sna_call.raised # "" => sna.header = sna_pre.header

\* C12: set_z80_register(r, v) raises nothing exactly when r is one of the
\* 18 8-bit names and v in 0..255, or one of the 12 16-bit names and v in
\* 0..65535.  After it get_z80_register(r) returns v, and a 16-bit v is
\* stored low byte first.  A call that fails leaves the header as it was,
\* and get_z80_register of an unknown name raises InvalidZ80RegisterError.
C12_Z80Register ==
    sna_call.op = "set_z80_register" =>
        LET r == sna_call.args[1]
            v == sna_call.args[2]
            wide == In(r, z80_registers_16bit)
            fits == \/ In(r, z80_registers_8bit) /\ v \in 0..255
                    \/ wide /\ v \in 0..65535
            off == get_z80_register_offset(r).ret
        IN  /\ Len(z80_registers_8bit) = 18 /\ Len(z80_registers_16bit) = 12
            /\ (sna_call.raised = "") <=> fits
            /\ fits => /\ get_z80_register(sna, r) = Return(v)
                       /\ wide => /\ GetItem(sna.header, off) = v % 256
                                  /\ GetItem(sna.header, off + 1) = v \div 256
            /\ ~fits => sna.header = sna_pre.header
            /\ get_z80_register(sna, "XY").raised = "InvalidZ80RegisterError"
            /\ (~In(r, z80_registers_8bit) /\ ~wide)
                   => sna_call.raised = "InvalidZ80RegisterError"

\* set_z80_register('BC', 0x1234) has stored 0x34 at 0x13 and 0x12 at 0x14.
C12_Witness ==
    /\ sna_call.op = "set_z80_register"
    /\ sna_call.args = <<"BC", 4660>>
    /\ sna_call.raised = ""
    /\ GetItem(sna.header, 19) = 52
    /\ GetItem(sna.header, 20) = 18
    /\ sna_pre.header # sna.header

\* Every byte of the header but those at the offsets in changed is as it was
\* before the call, and so is the memory.
OnlyHeaderBytes(changed) ==
    /\ sna.memory = sna_pre.memory
    /\ sna.header.len = sna_pre.header.len
    /\ \A j \in (0..255) \ changed :
           GetItem(sna.header, j) = GetItem(sna_pre.header, j)

\* C13: set_inks and set_firmware_inks raise ListSizeError for a list of 0
\* or of more than 16 entries and accept a list of 1..16 valid colours; a
\* call that succeeds with k entries makes inks 0..k-1 the colours given and
\* leaves inks k..15, the border and every other byte of the header as
\* they were.
C13_LeadingInks ==
    sna_call.op \in {"set_inks", "set_firmware_inks"} =>
        LET inks == sna_call.args[1]
            k == Len(inks)
            hardware == sna_call.op = "set_inks"
            colours == IF hardware THEN 0..31 ELSE 0..26
        IN  /\ k \notin 1..16 => sna_call.raised = "ListSizeError" /\ sna = sna_pre
            /\ (k \in 1..16 /\ \A i \in 1..k : inks[i] \in colours)
                   => sna_call.raised = ""
            /\ sna_call.raised = "" =>
                   /\ k \in 1..16
                   /\ \A i \in 0..(k - 1) :
                          IF hardware THEN get_ink(sna, i) = Return(inks[i + 1])
                          ELSE get_firmware_ink(sna, i) = Return(inks[i + 1])
                   /\ OnlyHeaderBytes(47..(46 + k))

\* set_inks([5]) on a blank snapshot: ink 0 is 5, ink 1 and the border are
\* black still.
C13_Witness ==
    /\ sna_call.op = "set_inks"
    /\ sna_call.args = << <<5>> >>
    /\ sna_call.raised = ""
    /\ get_ink(sna, 0).ret = 5
    /\ get_ink(sna_pre, 0).ret = 20
    /\ get_ink(sna, 1).ret = 20
    /\ get_border(sna).ret = 20

\* The firmware colours: 0..26.
FirmwareColours == 0..26

\* After set_firmware_ink(ink, colour) left the snapshot self, the hardware
\* value of the ink is in 0..31, the table maps it to colour and
\* get_firmware_ink(ink) returns colour.
FirmwareInkStored(self, ink, colour) ==
    LET h == get_ink(self, ink) IN
    /\ h.raised = ""
    /\ h.ret \in 0..31
    /\ firmware_inks[h.ret + 1] = colour
    /\ get_firmware_ink(self, ink) = Return(colour)

\* C14: set_firmware_ink(i, c) accepts every ink i in 0..15 and firmware
\* colour c in 0..26; after it h = get_ink(i) is in 0..31 with
\* firmware_inks[h] = c and get_firmware_ink(i) returns c.  After
\* set_firmware_border(c) get_firmware_border() returns c.  The call made is
\* checked in every state, and every pair (i, c) on every snapshot the
\* constructor made.
C14_FirmwareInkRoundTrip ==
    /\ sna_call.op = "set_firmware_ink" =>
           LET i == sna_call.args[1]
               c == sna_call.args[2]
           IN  /\ (i \in 0..15 /\ c \in FirmwareColours) => sna_call.raised = ""
               /\ sna_call.raised = "" => FirmwareInkStored(sna, i, c)
    /\ sna_call.op = "set_firmware_border" =>
           LET c == sna_call.args[1] IN
           /\ c \in FirmwareColours => sna_call.raised = ""
           /\ sna_call.raised = "" => get_firmware_border(sna) = Return(c)
    /\ (sna_call.op \in {"new", "open"} /\ sna_call.raised = "") =>
           /\ \A j \in 0..15, d \in FirmwareColours :
                  LET set == set_firmware_ink(sna, j, d) IN
                  set.raised = "" /\ FirmwareInkStored(set.self, j, d)
           /\ \A d \in FirmwareColours :
                  LET set == set_firmware_border(sna, d) IN
                  set.raised = "" /\ get_firmware_border(set.self) = Return(d)

\* set_firmware_ink(15, 26) has stored hardware colour 11, bright white.
C14_Witness ==
    /\ sna_call.op = "set_firmware_ink"
    /\ sna_call.args = <<15, 26>>
    /\ sna_call.raised = ""
    /\ get_ink(sna, 15).ret = 11
    /\ get_ink(sna_pre, 15).ret # 11
    /\ get_firmware_ink(sna, 15).ret = 26

\* C15: set_firmware_ink, set_firmware_inks and set_firmware_border raise
\* ValueError for every colour outside 0..26, the colours 27..31 among
\* them, and leave the header as it was.
C15_FirmwareColourRange ==
    LET refused == sna_call.raised = "ValueError" /\ sna.header = sna_pre.header IN
    /\ sna_call.op = "set_firmware_ink" /\ sna_call.args[2] \notin FirmwareColours
           => refused
    /\ sna_call.op = "set_firmware_border" /\ sna_call.args[1] \notin FirmwareColours
           => refused
    /\ sna_call.op = "set_firmware_inks"
           => LET inks == sna_call.args[1] IN
              (Len(inks) \in 1..16 /\ \E i \in 1..Len(inks) : inks[i] \notin FirmwareColours)
                  => refused

\* Header byte 0x40 after the call has the bits in changed equal to those of
\* value and its other bits as before; nothing else has changed.
OnlyModeByteBits(changed, value) ==
    /\ sna_call.raised = ""
    /\ OnlyHeaderBytes({64})
    /\ \A n \in 0..7 :
           Bit(GetItem(sna.header, 64), n) =
               IF n \in changed THEN Bit(value, n)
               ELSE Bit(GetItem(sna_pre.header, 64), n)

\* C16: set_screen_mode(m) with m in 0..3 sets bits 0-1 of header byte 0x40
\* to m and leaves bits 2-7 as they were, and fails changing nothing for any
\* other m; disable_lower_rom sets and enable_lower_rom clears bit 2 only,
\* disable_upper_rom sets and enable_upper_rom clears bit 3 only.  So
\* get_screen_mode reports the mode last set and get_rom_status the ROM
\* states last set, whichever of the calls came in between.
C16_ModeByteFields ==
    LET rom_calls == {"enable_lower_rom", "disable_lower_rom",
                      "enable_upper_rom", "disable_upper_rom"}
        status == get_rom_status(sna).ret
        before == get_rom_status(sna_pre).ret
    IN
    /\ sna_call.op = "set_screen_mode" =>
           LET m == sna_call.args[1] IN
           IF m \in 0..3
           THEN /\ OnlyModeByteBits({0, 1}, m)
                /\ get_screen_mode(sna) = Return(m)
                /\ status = before
           ELSE sna_call.raised = "ValueError" /\ sna = sna_pre
    /\ sna_call.op = "disable_lower_rom" =>
           OnlyModeByteBits({2}, 4) /\ status = <<FALSE, before[2]>>
    /\ sna_call.op = "enable_lower_rom" =>
           OnlyModeByteBits({2}, 0) /\ status = <<TRUE, before[2]>>
    /\ sna_call.op = "disable_upper_rom" =>
           OnlyModeByteBits({3}, 8) /\ status = <<before[1], FALSE>>
    /\ sna_call.op = "enable_upper_rom" =>
           OnlyModeByteBits({3}, 0) /\ status = <<before[1], TRUE>>
    /\ sna_call.op \in rom_calls => get_screen_mode(sna) = get_screen_mode(sna_pre)

\* set_screen_mode(2) after enable_lower_rom on a blank snapshot: byte 0x40
\* went from 0x09 to 0x0a, the lower ROM is enabled still and the upper ROM
\* disabled.
C16_Witness ==
    /\ sna_call.op = "set_screen_mode"
    /\ sna_call.args = <<2>>
    /\ GetItem(sna_pre.header, 64) = 9
    /\ GetItem(sna.header, 64) = 10
    /\ get_rom_status(sna).ret = <<TRUE, FALSE>>

\* C17: set_crtc_registers accepts a list of k values in 0..255 for every k
\* in 1..18, 18 among them, makes CRTC registers 0..k-1 those values and
\* leaves registers k..17 and all else as they were; it fails for an empty
\* list and for more than 18 values.
C17_CrtcRegisterList ==
    sna_call.op = "set_crtc_registers" =>
        LET registers == sna_call.args[1]
            k == Len(registers)
        IN  /\ k \notin 1..18 => sna_call.raised # "" /\ sna = sna_pre
            /\ (k \in 1..18 /\ \A i \in 1..k : registers[i] \in 0..255) =>
                   /\ sna_call.raised = ""
                   /\ \A r \in 0..(k - 1) :
                          get_crtc_register(sna, r) = Return(registers[r + 1])
                   /\ OnlyHeaderBytes(67..(66 + k))

DefaultCrtcRegisters ==
    <<63, 40, 46, 142, 38, 0, 25, 30, 0, 7, 0, 0, 48, 0, 192, 0, 0, 0>>

\* C19: the snapshot Snapshot(ram_size=...) makes has 'MV - SNA' in bytes
\* 0-7, 2 at 0x10, ram_size at 0x6b, hardware colour 20 in the 16 inks and
\* the border, screen mode 1, both ROMs disabled (0x0d at 0x40), interrupts
\* disabled (bit 0 of byte 0x1b clear), 0x82 at 0x59, the default values in
\* CRTC registers 0..15 and 0 in registers 16 and 17, 0 in every Z80
\* register and 0 in every byte of the memory.
C19_BlankDefaults ==
    (sna_call.op = "new" /\ sna_call.raised = "") =>
        /\ sna.header.len = 256
        /\ \A i \in 1..8 : GetItem(sna.header, i - 1) = SnaSignature[i]
        /\ SnaSignature = <<77, 86, 32, 45, 32, 83, 78, 65>>
        /\ GetItem(sna.header, 16) = 2
        /\ GetItem(sna.header, 107) = sna_call.args[1]
        /\ \A ink \in 0..15 : get_ink(sna, ink) = Return(20)
        /\ get_border(sna) = Return(20)
        /\ get_screen_mode(sna) = Return(1)
        /\ get_rom_status(sna) = Return(<<FALSE, FALSE>>)
        /\ GetItem(sna.header, 64) = 13
        /\ Bit(GetItem(sna.header, 27), 0) = 0
        /\ GetItem(sna.header, 89) = 130
        /\ \A r \in 0..17 : get_crtc_register(sna, r) = Return(DefaultCrtcRegisters[r + 1])
        /\ \A i \in 1..Len(z80_registers_8bit) :
               get_z80_register(sna, z80_registers_8bit[i]) = Return(0)
        /\ \A i \in 1..Len(z80_registers_16bit) :
               get_z80_register(sna, z80_registers_16bit[i]) = Return(0)
        /\ sna.memory.len = sna_call.args[1] * 1024
        /\ DOMAIN sna.memory.nz = {}

\* Snapshot(ram_size=64) has made a blank snapshot in screen mode 1.
C19_Witness ==
    /\ sna_call.op = "new"
    /\ sna_call.args = <<64>>
    /\ sna_call.raised = ""
    /\ GetItem(sna.header, 64) = 13
    /\ GetItem(sna.header, 89) = 130
    /\ GetItem(sna.header, 67) = 63

\* C20: on every snapshot, for every content and start offset, insert_file
\* of a file accepts exactly when insert_bytes accepts the file's bytes at
\* that offset, raises the same error when it does not, and leaves the
\* same snapshot when it does.
C20_InsertFileAsInsertBytes ==
    /\ sna_call.op = "insert_file" =>
           LET other == insert_bytes(sna_pre, sna_call.args[1], sna_call.args[2]) IN
           other.raised = sna_call.raised /\ other.self = sna
    /\ sna_call.op = "insert_bytes" =>
           LET other == insert_file(sna_pre, sna_call.args[1], sna_call.args[2]) IN
           other.raised = sna_call.raised /\ other.self = sna

(***************************************************************************)
(* The palette conversions' inputs: every RGB triple of values at and      *)
(* around the thresholds, palettes of 0, 2, 256 and more triples, lists    *)
(* whose length is no multiple of 3, every list of one value in            *)
(* -1..MaxInk, and lists of firmware colours of 0 to MaxPaletteLen values. *)
(***************************************************************************)
MaxChannel == 255

MaxTriples == 257

MaxInk == 27

MaxPaletteLen == 17

Channels == {0, 85, 86, 170, 171, MaxChannel}

PaletteLists ==
    [1..3 -> Channels]
    \cup {<<0, 0, 0, 255, 255, 255>>, <<85, 86, 170, 171, -1, 256>>}
    \cup {[k \in 1..(3 * n) |-> 100 * ((k - 1) % 3)] : n \in {256, MaxTriples}}
    \cup {[k \in 1..n |-> 200] : n \in {2, 4, 3 * MaxTriples - 1}}
    \cup [1..1 -> -1..MaxInk]
    \cup [1..2 -> {0, 13, 26}]
    \cup {[k \in 1..n |-> k + 9] : n \in {0, 16, MaxPaletteLen}}

PaletteInit ==
    /\ palette \in PaletteLists
    /\ converted = NoCall
    /\ PixelIdle
    /\ DiskIdle
    /\ SnapshotIdle

PaletteCalled(op, res) ==
    /\ converted.op = "none"
    /\ converted' = [op |-> op, raised |-> res.raised, ret |-> res.ret]
    /\ UNCHANGED <<palette, PixelVars, DiskVars, SnapshotVars>>

ConvertRgbPaletteToCpc ==
    PaletteCalled("convert_rgb_palette_to_cpc", convert_rgb_palette_to_cpc(palette))

ConvertCpcPaletteToRgb ==
    PaletteCalled("convert_cpc_palette_to_rgb", convert_cpc_palette_to_rgb(palette))

PaletteNext == ConvertRgbPaletteToCpc \/ ConvertCpcPaletteToRgb

SpecPalette == PaletteInit /\ [][PaletteNext]_vars

(***************************************************************************)
(* The palette conversions' properties.                                    *)
(***************************************************************************)
\* The level of a channel value: 0 up to 85, 1 from 86 to 170, 2 above.
Quantised(v) == IF v <= 85 THEN 0 ELSE IF v \in 86..170 THEN 1 ELSE 2

\* C21: for a palette of n RGB triples, n up to 256, entry i < n of the
\* result of convert_rgb_palette_to_cpc is blue_q + red_q * 3 + green_q * 9,
\* each channel quantised to 0 (up to 85), 1 (86 to 170) or 2; every entry
\* is in 0..26 and entries n..255 are 0.
C21_RgbToFirmwareColour ==
    converted.op = "convert_rgb_palette_to_cpc" =>
        LET n == Len(palette) \div 3 IN
        /\ (Len(palette) % 3 = 0 /\ n <= 256) => converted.raised = ""
        /\ converted.raised = "" =>
               /\ \A i \in 0..(n - 1) :
                      /\ converted.ret[i + 1] =
                             Quantised(palette[3 * i + 3])
                             + Quantised(palette[3 * i + 1]) * 3
                             + Quantised(palette[3 * i + 2]) * 9
                      /\ converted.ret[i + 1] \in 0..26
               /\ \A i \in n..255 : converted.ret[i + 1] = 0

\* [0,0,0, 255,255,255] has given 0, 26 and then zeros.
C21_Witness ==
    /\ converted.op = "convert_rgb_palette_to_cpc"
    /\ palette = <<0, 0, 0, 255, 255, 255>>
    /\ converted.raised = ""
    /\ converted.ret[1] = 0
    /\ converted.ret[2] = 26
    /\ \A i \in 3..256 : converted.ret[i] = 0

\* C22: convert_rgb_palette_to_cpc returns a list of exactly 256 entries for
\* every list whose length is a multiple of 3, the empty list and lists of
\* more than 256 triples among them, and raises ListSizeError for every
\* other list.
C22_AlwaysAFullTable ==
    converted.op = "convert_rgb_palette_to_cpc" =>
        IF Len(palette) % 3 = 0
        THEN converted.raised = "" /\ Len(converted.ret) = 256
        ELSE converted.raised = "ListSizeError"

\* The channel value of a base-3 digit.
ChannelOf(digit) == CASE digit = 0 -> 0 [] digit = 1 -> 128 [] digit = 2 -> 255

C24_SectorList ==
    dsk_call.op = "get_sector_info" =>
        LET track == dsk_call.track
            tib == dsk.track_info_block
            T == DeclaredSizesBefore(dsk, track)
            n == GetItem(tib, T + 21)
        IN  /\ track \notin 0..(GetItem(dsk.header, 48) - 1)
                   => dsk_call.raised = "InvalidTrackError"
            /\ (/\ track \in 0..(GetItem(dsk.header, 48) - 1)
                /\ DeclaredSize(dsk, track) # 0
                /\ T + 24 + 8 * n <= tib.len)
               => /\ dsk_call.raised = ""
                  /\ Len(dsk_call.ret) = n
                  /\ \A j \in 0..(n - 1) :
                         LET at == T + 24 + 8 * j IN
                         dsk_call.ret[j + 1] =
                             << GetItem(tib, at), GetItem(tib, at + 1),
                                GetItem(tib, at + 2), GetItem(tib, at + 3),
                                GetItem(tib, at + 4), GetItem(tib, at + 5),
                                GetItem(tib, at + 6) + 256 * GetItem(tib, at + 7) >>

\* get_sector_info(1) on a disk of two tracks has returned the three
\* descriptors of track 1, the first of sector 0x22 with 256 bytes.
C24_Witness ==
    /\ dsk_call.op = "get_sector_info"
    /\ dsk_call.track = 1
    /\ dsk_call.raised = ""
    /\ Len(dsk_call.ret) = 3
    /\ dsk_call.ret[1] = <<1, 0, 34, 1, 0, 0, 256>>
    /\ dsk_call.ret[2] = <<1, 0, 33, 0, 0, 0, 128>>

\* C25: after any write_sector calls the header, the length of
\* track_info_block, the track count and get_sector_info of every track are
\* those of the disk image as DiskImage() made it; and a write_sector that
\* succeeds changes no byte outside the sector's data, the bytes from the
\* cursor on for the length the descriptor declares.
C25_WritesKeepTheLayout ==
    dsk # NoDisk =>
        LET made == DiskImage_init(dsk_file).self IN
        /\ dsk.header = made.header
        /\ dsk.track_info_block.len = made.track_info_block.len
        /\ number_of_tracks(dsk) = number_of_tracks(made)
        /\ \A track \in 0..(MaxTracks - 1) :
               get_sector_info(dsk, track) = get_sector_info(made, track)
        /\ (dsk_call.op = "write_sector" /\ dsk_call.raised = "") =>
               LET info == get_sector_info(dsk_pre, dsk_call.track).ret
                   j == FirstMatch(info, dsk_call.sector)
                   cursor == DeclaredSizesBefore(dsk_pre, dsk_call.track) + 256
                             + LengthsBefore(info, j)
               IN  \A k \in DOMAIN dsk.track_info_block.nz
                            \cup DOMAIN dsk_pre.track_info_block.nz :
                       k \notin cursor..(cursor + info[j][7] - 1) =>
                           GetItem(dsk.track_info_block, k)
                               = GetItem(dsk_pre.track_info_block, k)

\* C27: after write_sector(track, sector, data) has succeeded,
\* read_sector(track, sector) returns data, of the same length and the same
\* bytes, also for a descriptor whose size code N stands for a length,
\* 128 * 2^N, that is not the actual length it declares.
C27_WriteThenRead ==
    (dsk_call.op = "write_sector" /\ dsk_call.raised = "") =>
        read_sector(dsk, dsk_call.track, dsk_call.sector) = Return(dsk_call.data)

(***************************************************************************)
(* More of the snapshot's properties.                                      *)
(***************************************************************************)

\* C26: get_ink(ink) and get_firmware_ink(ink) raise ValueError for every
\* ink outside 0..15, so no byte outside 0x2F..0x3E is returned as an ink's
\* colour; for an ink in 0..15 they return, and get_ink's value is in 0..31.
C26_InkGettersValidate ==
    (sna_call.op \in {"get_ink", "get_firmware_ink"}) =>
        IF sna_call.args[1] \in 0..15
        THEN /\ sna_call.raised = ""
             /\ sna_call.op = "get_ink" => sna_call.ret \in 0..31
        ELSE sna_call.raised = "ValueError"

\* The sixteen-bit pairs with their low and high halves, and all the names.
RegisterPairs ==
    { <<"AF", "F", "A">>, <<"BC", "C", "B">>, <<"DE", "E", "D">>,
      <<"HL", "L", "H">>, <<"AF'", "F'", "A'">>, <<"BC'", "C'", "B'">>,
      <<"DE'", "E'", "D'">>, <<"HL'", "L'", "H'">> }

RegisterNames ==
    {z80_registers_8bit[i] : i \in 1..Len(z80_registers_8bit)}
        \cup {z80_registers_16bit[i] : i \in 1..Len(z80_registers_16bit)}

\* r and q are one register, or a pair and one of its halves.
RelatedRegisters(r, q) ==
    \/ r = q
    \/ \E p \in RegisterPairs :
        \/ p[1] = r /\ q \in {p[2], p[3]}
        \/ p[1] = q /\ r \in {p[2], p[3]}

\* The header bytes that hold register r.
RegisterBytes(r) ==
    LET offset == get_z80_register_offset(r).ret IN
    IF In(r, z80_registers_16bit) THEN {offset, offset + 1} ELSE {offset}

RegisterLayout ==
    /\ \A r \in RegisterNames :
        /\ get_z80_register_offset(r).raised = ""
        /\ RegisterBytes(r) \subseteq 17..46
        /\ RegisterBytes(r) \cap ({27, 28} \cup 47..62) = {}
    /\ \A r, q \in RegisterNames :
        ~RelatedRegisters(r, q) => RegisterBytes(r) \cap RegisterBytes(q) = {}
    /\ \A p \in RegisterPairs :
        /\ get_z80_register_offset(p[2]).ret = get_z80_register_offset(p[1]).ret
        /\ get_z80_register_offset(p[3]).ret = get_z80_register_offset(p[1]).ret + 1

\* C28: a pair lies on its two halves (after set 'BC' v, 'C' is v mod 256
\* and 'B' is v div 256; after setting a half, the pair reads the new half
\* with the other half as it was); registers that are not a pair and its
\* half hold disjoint bytes within 0x11..0x2E, none of them 0x1B, 0x1C or an
\* ink's byte; a register set leaves every unrelated register's value.
C28_RegisterOffsets ==
    (sna_call.op = "set_z80_register" /\ sna_call.raised = "") =>
        LET r == sna_call.args[1]
            v == sna_call.args[2]
        IN  /\ RegisterLayout
            /\ \A q \in RegisterNames :
                ~RelatedRegisters(r, q) =>
                    get_z80_register(sna, q) = get_z80_register(sna_pre, q)
            /\ \A p \in RegisterPairs :
                /\ p[1] = r =>
                    /\ get_z80_register(sna, p[2]) = Return(v % 256)
                    /\ get_z80_register(sna, p[3]) = Return(v \div 256)
                /\ p[2] = r =>
                    get_z80_register(sna, p[1])
                        = Return(v + 256 * get_z80_register(sna_pre, p[3]).ret)
                /\ p[3] = r =>
                    get_z80_register(sna, p[1])
                        = Return(get_z80_register(sna_pre, p[2]).ret + 256 * v)

C28_Witness ==
    /\ sna_call.op = "set_z80_register"
    /\ sna_call.raised = ""
    /\ sna_call.args = <<"BC", 4660>>
    /\ get_z80_register(sna, "C") = Return(52)
    /\ get_z80_register(sna, "B") = Return(18)
    /\ get_z80_register(sna_pre, "C") # Return(52)

\* C29: enable_interrupts and disable_interrupts change bit 0 of the bytes
\* 0x1B and 0x1C only (to 1, to 0): bits 1-7 of both bytes, every other byte
\* of the header and the memory are as before, also on a snapshot read from
\* a file whose bytes 0x1B and 0x1C differ.
C29_InterruptFlagBitOnly ==
    (sna_call.op \in {"enable_interrupts", "disable_interrupts"}
        /\ sna_call.raised = "") =>
        /\ OnlyHeaderBytes({27, 28})
        /\ \A i \in {27, 28} :
            /\ Bit(GetItem(sna.header, i), 0)
                 = (IF sna_call.op = "enable_interrupts" THEN 1 ELSE 0)
            /\ \A n \in 1..7 :
                Bit(GetItem(sna.header, i), n) = Bit(GetItem(sna_pre.header, i), n)

\* Bytes 0-7 of the header are 'MV - SNA' and byte 0x10 is 2.
Identified(self) ==
    /\ GetSlice(self.header, 0, 8) = FromList(SnaSignature)
    /\ InRange(self.header, 16)
    /\ GetItem(self.header, 16) = 2

\* C30: after new() or a successful open() and any calls of setters and
\* insertions, raised or not, bytes 0-7 of the header are 'MV - SNA' and
\* byte 0x10 is 2, and the file that write() makes (the header, then the
\* memory) is accepted by open() and gives the same header and memory.
C30_WrittenFileReopens ==
    sna # NoSnapshot =>
        /\ Identified(sna)
        /\ Snapshot_open(Snapshot_write(sna), 64) = Done(sna)

====
